---- MODULE Spec2Model ----
(***************************************************************************)
(* Transfer orchestration engine of Omnicheckout: the CCTPController use   *)
(* cases (initiateTransfer, getAttestation, completeTransfer,              *)
(* getTransferStatus), the EVM and Solana transfer executors, the          *)
(* attestation and status services, and the transaction webhook processor, *)
(* all of which read and write the persisted Transaction record.           *)
(***************************************************************************)
EXTENDS Integers, FiniteSets, Sequences, TLC

\* ---------------------------------------------------------------- bounds
MaxTransfers == 1
MaxAmount == 1
MaxWebhooks == 1
MaxCallers == 2

\* ------------------------------------------------------------ data model
TxIds == 1..MaxTransfers

\* three of the supported chain ids: two EVM chains and the Solana chain
SupportedChainId == {"ETH_SEPOLIA", "BASE_SEPOLIA", "SOLANA_DEVNET"}

isSolanaChain(chainId) == chainId = "SOLANA_DEVNET"

\* an absent optional field (undefined)
NoValue == <<>>

\* values produced by the chains and by the attestation service
BurnHash(i) == <<"burn", i>>
MintHash(i) == <<"mint", i>>
MessageOf(i) == <<"message", i>>
AttestationOf(i) == <<"attestation", i>>
MessageHashOf(i) == <<"messageHash", i>>
\* caller-made values no chain or attestor ever produced
GarbageMessage == <<"message", 0>>
BogusAttestation == <<"attestation", 0>>

\* destinationAddress strings by format: a 20-byte hex address or a base58
\* public key; each is an invalid address for a chain of the other family
AddressKinds == {"evm", "solana"}

TransactionStatus == {"pending", "confirmed", "completed", "failed"}

\* no parser call was made; no contract is deployed
NoParserCall == [kind |-> "none", length |-> 0, prefixed |-> FALSE,
                 outcome |-> "none", parsed |-> NoValue]
NoHook == [deployed |-> FALSE, owner |-> 0, USDC |-> 0, charityAddress |-> 0,
           charityPercentage |-> 0, call |-> "none", error |-> "none",
           returned |-> NoValue]

\* no token balances; no encoder call was made; no payment session exists
NoToken == <<>>
NoEncoding == [kind |-> "none", input |-> NoValue, output |-> NoValue]
NoUpdates == [status |-> "undefined", sourceChain |-> 0, customerAddress |-> "",
              transactionHash |-> "", metadata |-> ""]
NoNotification == [notificationType |-> "none", status |-> "none"]
NoPaymentCall == [kind |-> "none", id |-> 0, updates |-> NoUpdates,
                  notification |-> NoNotification, error |-> "none",
                  returned |-> "none"]
NoPayments == [sessions |-> <<>>, now |-> 0, call |-> NoPaymentCall]

VARIABLES
    transactions,   \* the Transaction collection: transactionId -> document
    calls,          \* initiateTransfer calls in flight, by transactionId
    completion,     \* the completeTransfer call in flight
    burnTx,         \* source chains: state of each transfer's burn transaction
    attested,       \* attestation service: transfers with a complete attestation
    minted,         \* destination chains: transfers whose message was received
    webhooks,       \* number of transaction webhooks processed
    attObserved,    \* history: transfers whose attestation a handler saw complete
    fetched,        \* history, by transfer: the record that took the first
                    \* complete response getAttestation got from the attestation
                    \* service (0: no record was found, -1: no such response yet)
    attCalls,       \* getAttestation calls in flight, by caller, where the calls
                    \* are followed await by await
    parser,         \* messageParser: the input given and what came of it
    hook,           \* the OmniCheckoutHook contract and its last call
    token,          \* the USDC token: balance of each account
    encoder,        \* the executors' byte encoders: the input and the bytes
    payments,       \* the Payment collection and the payment service's clock
    ret             \* the last response produced by any handler

vars == <<transactions, calls, completion, burnTx, attested, minted, webhooks,
          attObserved, fetched, attCalls, parser, hook, token,
          encoder, payments, ret>>

chainVars == <<burnTx, attested, minted>>

\* what no CCTP handler of the backend reads or writes
outsideVars == <<parser, hook, token, encoder, payments>>

\* ---------------------------------------------------------------- values
IdleCall == [pc |-> "idle", balance |-> -1, allowance |-> "unchecked",
             approval |-> "none", approveSubmits |-> 0,
             burnSubmits |-> 0, error |-> "none"]

IdleCompletion == [pc |-> "idle", message |-> NoValue, attestation |-> NoValue,
                   destinationChain |-> "none", recordCompleted |-> FALSE,
                   account |-> "unchecked",
                   ataOwner |-> NoValue, ataSubmits |-> 0,
                   mintSubmits |-> 0]

ResponseWith(op, id, outcome, error, hash, data) ==
    [op |-> op, id |-> id, outcome |-> outcome, error |-> error, hash |-> hash,
     data |-> data]

Response(op, id, outcome, error, hash) ==
    ResponseWith(op, id, outcome, error, hash, NoValue)

\* no response: the step taken was not the end of a call
NoResponse == Response("none", 0, "none", "none", NoValue)

\* concurrent callers of getAttestation
Callers == 1..MaxCallers

IdleAttCall == [pc |-> "idle", t |-> 0, afterWrite |-> FALSE,
                result |-> <<"none", NoValue, NoValue, NoValue>>,
                externalCalls |-> 0, answer |-> "none"]

Init ==
    /\ transactions = <<>>
    /\ calls = [i \in TxIds |-> IdleCall]
    /\ completion = IdleCompletion
    /\ burnTx = [i \in TxIds |-> "none"]
    /\ attested = {}
    /\ minted = {}
    /\ webhooks = 0
    /\ attObserved = {}
    /\ fetched = [i \in TxIds |-> -1]
    /\ attCalls = [c \in Callers |-> IdleAttCall]
    /\ parser = NoParserCall
    /\ hook = NoHook
    /\ token = NoToken
    /\ encoder = NoEncoding
    /\ payments = NoPayments
    /\ ret = NoResponse

\* ------------------------------------------------------- initiateTransfer
\* amount strings a request may carry: decimal numerals, the empty string
\* (field missing) and a string that is no number
AmountStrings == {ToString(n) : n \in 0..MaxAmount} \cup {"", "abc"}

isNaN(amount) == \A n \in 0..MaxAmount : ToString(n) # amount

\* parseFloat of a numeral
parseFloat(amount) == CHOOSE n \in 0..MaxAmount : ToString(n) = amount

\* USDC has 6 decimals
UsdcUnit == 1000000

\* ethers.parseUnits(amount, 6)
parseUnits(amount) == parseFloat(amount) * UsdcUnit

\* token amounts a chain can report
TokenAmounts == {n * UsdcUnit : n \in 0..MaxAmount}

\* a validation that lets equal chains and amounts that are not positive pass
validateTransferRequestLax(sourceChain, destinationChain, amount, sourceAddress, destinationAddress) ==
    IF sourceChain = "" \/ destinationChain = "" \/ amount = ""
       \/ sourceAddress = "" \/ destinationAddress = ""
    THEN "Missing required fields"
    ELSE IF sourceChain \notin SupportedChainId
            \/ destinationChain \notin SupportedChainId
    THEN "Unsupported chain"
    ELSE IF isNaN(amount)
    THEN "Invalid amount"
    ELSE "ok"

\* CCTPController.validateTransferRequest: the error it reports, or "ok"
validateTransferRequest(sourceChain, destinationChain, amount, sourceAddress, destinationAddress) ==
    IF sourceChain = "" \/ destinationChain = "" \/ amount = ""
       \/ sourceAddress = "" \/ destinationAddress = ""
    THEN "Missing required fields"
    ELSE IF sourceChain \notin SupportedChainId
            \/ destinationChain \notin SupportedChainId
    THEN "Unsupported chain"
    ELSE IF sourceChain = destinationChain
    THEN "Source and destination chains must be different"
    ELSE IF isNaN(amount) \/ parseFloat(amount) <= 0
    THEN "Invalid amount"
    ELSE "ok"

\* new Transaction({... status: 'pending', metadata: {...}})
NewTransaction(sourceChain, destinationChain, amount, sourceAddress, destinationAddress) ==
    [sourceChain |-> sourceChain,
     destinationChain |-> destinationChain,
     amount |-> amount,
     sourceAddress |-> sourceAddress,
     destinationAddress |-> destinationAddress,
     status |-> "pending",
     transactionHash |-> NoValue,
     attestationHash |-> NoValue,
     burnTxHash |-> NoValue,
     mintTxHash |-> NoValue,
     messageBytes |-> NoValue,
     messageHash |-> NoValue,
     metadata |-> [error |-> "none"]]

\* an initiateTransfer whose collection has no unique index on transactionId
InitiateTransferNoUniqueIndex(i, sourceChain, destinationChain, amount, sourceAddress, destinationAddress) ==
    LET v == validateTransferRequest(sourceChain, destinationChain, amount,
                                     sourceAddress, destinationAddress) IN
    /\ calls[i].pc \in {"idle", "done"}
    /\ IF v # "ok"
       THEN /\ ret' = Response("initiateTransfer", i, "rejected", v, NoValue)
            /\ UNCHANGED <<transactions, calls>>
       ELSE /\ transactions' = [j \in DOMAIN transactions \cup {i} |->
                                  IF j = i
                                  THEN NewTransaction(sourceChain, destinationChain,
                                           amount, sourceAddress,
                                           destinationAddress)
                                  ELSE transactions[j]]
            /\ calls' = [calls EXCEPT ![i].pc =
                            IF isSolanaChain(sourceChain) THEN "recipient"
                                                          ELSE "balance"]
            /\ ret' = NoResponse
    /\ UNCHANGED <<completion, chainVars, webhooks, attObserved, fetched, attCalls, outsideVars>>

\* initiateTransfer up to its first await, with sessionId i as transactionId:
\* the request is validated (a request that fails validation gets a 400 and
\* nothing else happens), then the record is created and saved with status
\* 'pending'; the unique index on
\* transactionId refuses a second record with the id (the save throws a
\* duplicate key error, which goes to next(error) before any executor runs)
InitiateTransfer(i, sourceChain, destinationChain, amount, sourceAddress, destinationAddress) ==
    LET v == validateTransferRequest(sourceChain, destinationChain, amount,
                                     sourceAddress, destinationAddress) IN
    /\ IF v # "ok"
       THEN /\ ret' = Response("initiateTransfer", i, "rejected", v, NoValue)
            /\ UNCHANGED <<transactions, calls>>
       ELSE IF i \in DOMAIN transactions
       THEN /\ ret' = Response("initiateTransfer", i, "duplicate",
                               "E11000 duplicate key", NoValue)
            /\ UNCHANGED <<transactions, calls>>
       ELSE /\ transactions' = (i :> NewTransaction(sourceChain, destinationChain,
                                            amount, sourceAddress,
                                            destinationAddress))
                               @@ transactions
            /\ calls' = [calls EXCEPT ![i].pc =
                            IF isSolanaChain(sourceChain) THEN "recipient"
                                                          ELSE "balance"]
            /\ ret' = NoResponse
    /\ UNCHANGED <<completion, chainVars, webhooks, attObserved, fetched, attCalls, outsideVars>>

InitiateFailedUnrecorded(i, e, call) ==
    /\ UNCHANGED transactions
    /\ calls' = [calls EXCEPT ![i] = [call EXCEPT !.pc = "done", !.error = e]]
    /\ ret' = Response("initiateTransfer", i, "error", e, NoValue)

\* the catch block of initiateTransfer: the in-memory document gets status
\* 'failed' and metadata {...metadata, error}, is saved, and the error is
\* thrown again
InitiateFailed(i, e, call) ==
    /\ transactions' = [transactions EXCEPT
                           ![i].status = "failed",
                           ![i].metadata = [error |-> e]]
    /\ calls' = [calls EXCEPT ![i] = [call EXCEPT !.pc = "done", !.error = e]]
    /\ ret' = Response("initiateTransfer", i, "error", e, NoValue)

\* a success path that marks the record 'completed' at once
InitiateSucceededAsCompleted(i, h) ==
    /\ transactions' = [transactions EXCEPT
                           ![i].transactionHash = h,
                           ![i].burnTxHash = h,
                           ![i].status = "completed"]
    /\ calls' = [calls EXCEPT ![i].pc = "done"]
    /\ ret' = Response("initiateTransfer", i, "ok", "none", h)

\* the success path of initiateTransfer: transactionHash, burnTxHash and
\* status 'confirmed' are set on the in-memory document and saved
InitiateSucceeded(i, h) ==
    /\ transactions' = [transactions EXCEPT
                           ![i].transactionHash = h,
                           ![i].burnTxHash = h,
                           ![i].status = "confirmed"]
    /\ calls' = [calls EXCEPT ![i].pc = "done"]
    /\ ret' = Response("initiateTransfer", i, "ok", "none", h)

\* ------------------------------------------- EVMCCTPService.executeTransfer
amountOf(i) == parseUnits(transactions[i].amount)

InEvmCall(i, pc) ==
    /\ i \in DOMAIN transactions
    /\ calls[i].pc = pc
    /\ ~isSolanaChain(transactions[i].sourceChain)

\* an executor that reads the balance and goes on whatever it is
EvmCheckBalanceUnchecked(i) ==
    /\ InEvmCall(i, "balance")
    /\ \E balance \in TokenAmounts :
          /\ calls' = [calls EXCEPT ![i].pc = "allowance",
                                    ![i].balance = balance]
          /\ ret' = NoResponse
          /\ UNCHANGED transactions
    /\ UNCHANGED <<completion, chainVars, webhooks, attObserved, fetched, attCalls, outsideVars>>

\* balanceOf(wallet); a balance below the amount throws before anything else
EvmCheckBalance(i) ==
    /\ InEvmCall(i, "balance")
    /\ \E balance \in TokenAmounts :
          IF balance < amountOf(i)
          THEN InitiateFailed(i, "InsufficientBalance",
                              [calls[i] EXCEPT !.balance = balance])
          ELSE /\ calls' = [calls EXCEPT ![i].pc = "allowance",
                                         ![i].balance = balance]
               /\ ret' = NoResponse
               /\ UNCHANGED transactions
    /\ UNCHANGED <<completion, chainVars, webhooks, attObserved, fetched, attCalls, outsideVars>>

\* ensureUSDCApproval: allowance(wallet, tokenMessenger) decides whether an
\* approval is needed
EvmCheckAllowance(i) ==
    /\ InEvmCall(i, "allowance")
    /\ \E currentAllowance \in TokenAmounts :
          calls' = [calls EXCEPT
                       ![i].pc = IF currentAllowance < amountOf(i)
                                 THEN "approveSubmit" ELSE "burnSubmit",
                       ![i].allowance = IF currentAllowance < amountOf(i)
                                        THEN "short" ELSE "enough"]
    /\ ret' = NoResponse
    /\ UNCHANGED <<transactions, completion, chainVars, webhooks,
                   attObserved, fetched, attCalls, outsideVars>>

\* ensureUSDCApproval: usdcContract.approve(tokenMessenger, amount) is
\* submitted; the submission itself may be refused
EvmApproveSubmit(i) ==
    /\ InEvmCall(i, "approveSubmit")
    /\ \E accepted \in BOOLEAN :
          IF accepted
          THEN /\ calls' = [calls EXCEPT ![i].pc = "approveWait",
                               ![i].approval = "sent",
                               ![i].approveSubmits = calls[i].approveSubmits + 1]
               /\ ret' = NoResponse
               /\ UNCHANGED transactions
          ELSE InitiateFailed(i, "TransferExecutionFailed",
                   [calls[i] EXCEPT !.approveSubmits = calls[i].approveSubmits + 1])
    /\ UNCHANGED <<completion, chainVars, webhooks, attObserved, fetched, attCalls, outsideVars>>

\* an executor that goes on to the burn without waiting for the approval
EvmApproveNotAwaited(i) ==
    /\ InEvmCall(i, "approveWait")
    /\ calls' = [calls EXCEPT ![i].pc = "burnSubmit"]
    /\ ret' = NoResponse
    /\ UNCHANGED <<transactions, completion, chainVars, webhooks, attObserved,
                   fetched, attCalls, outsideVars>>

\* ensureUSDCApproval: approveTx.wait() returns once the approval is mined, or
\* throws when it reverted
EvmApproveWait(i) ==
    /\ InEvmCall(i, "approveWait")
    /\ \E mined \in BOOLEAN :
          IF mined
          THEN /\ calls' = [calls EXCEPT ![i].pc = "burnSubmit",
                                         ![i].approval = "mined"]
               /\ ret' = NoResponse
               /\ UNCHANGED transactions
          ELSE InitiateFailed(i, "TransferExecutionFailed",
                              [calls[i] EXCEPT !.approval = "reverted"])
    /\ UNCHANGED <<completion, chainVars, webhooks, attObserved, fetched, attCalls, outsideVars>>

\* EVMCCTPService.prepareMintRecipient: TRUE when the address converts.  A
\* Solana destination needs a base58 public key (new PublicKey throws
\* otherwise); an EVM destination needs hex data (zeroPadValue throws
\* otherwise)
evmPrepareMintRecipient(destinationAddress, destinationChainId) ==
    IF isSolanaChain(destinationChainId)
    THEN destinationAddress = "solana"
    ELSE destinationAddress = "evm"

\* an executor that submits the burn again when the submission is refused
EvmBurnSubmitRetrying(i) ==
    /\ InEvmCall(i, "burnSubmit")
    /\ IF ~evmPrepareMintRecipient(transactions[i].destinationAddress,
                                   transactions[i].destinationChain)
       THEN /\ InitiateFailed(i, "InvalidDestinationAddress", calls[i])
            /\ UNCHANGED burnTx
       ELSE \E accepted \in BOOLEAN :
              /\ calls' = [calls EXCEPT
                               ![i].pc = IF accepted THEN "burnWait"
                                                     ELSE "burnSubmit",
                               ![i].burnSubmits = calls[i].burnSubmits + 1]
              /\ burnTx' = [burnTx EXCEPT ![i] = IF accepted THEN "sent" ELSE @]
              /\ ret' = NoResponse
              /\ UNCHANGED transactions
    /\ UNCHANGED <<completion, attested, minted, webhooks, attObserved, fetched, attCalls, outsideVars>>

\* after the approval: prepareMintRecipient, then executeBurnTransaction
\* submits depositForBurn (or depositForBurnWithHook)
EvmBurnSubmit(i) ==
    /\ InEvmCall(i, "burnSubmit")
    /\ IF ~evmPrepareMintRecipient(transactions[i].destinationAddress,
                                   transactions[i].destinationChain)
       THEN /\ InitiateFailed(i, "InvalidDestinationAddress", calls[i])
            /\ UNCHANGED burnTx
       ELSE \E accepted \in BOOLEAN :
              IF accepted
              THEN /\ calls' = [calls EXCEPT ![i].pc = "burnWait",
                                   ![i].burnSubmits = calls[i].burnSubmits + 1]
                   /\ burnTx' = [burnTx EXCEPT ![i] = "sent"]
                   /\ ret' = NoResponse
                   /\ UNCHANGED transactions
              ELSE /\ InitiateFailed(i, "TransferExecutionFailed",
                          [calls[i] EXCEPT !.burnSubmits = calls[i].burnSubmits + 1])
                   /\ UNCHANGED burnTx
    /\ UNCHANGED <<completion, attested, minted, webhooks, attObserved, fetched, attCalls, outsideVars>>

\* ---------------------------------------- SolanaCCTPService.executeTransfer
InSolCall(i, pc) ==
    /\ i \in DOMAIN transactions
    /\ calls[i].pc = pc
    /\ isSolanaChain(transactions[i].sourceChain)

\* SolanaCCTPService.prepareMintRecipient: TRUE when the address converts.  A
\* Solana destination needs a base58 public key; for an EVM destination
\* Buffer.from(hex) never throws, it keeps the bytes it could decode and the
\* result is right-aligned in 32 bytes
solPrepareMintRecipient(destinationAddress, destinationChainId) ==
    IF isSolanaChain(destinationChainId)
    THEN destinationAddress = "solana"
    ELSE TRUE

\* executeTransfer starts with prepareMintRecipient, before any I/O
SolPrepareMintRecipient(i) ==
    /\ InSolCall(i, "recipient")
    /\ IF solPrepareMintRecipient(transactions[i].destinationAddress,
                                  transactions[i].destinationChain)
       THEN /\ calls' = [calls EXCEPT ![i].pc = "balance"]
            /\ ret' = NoResponse
            /\ UNCHANGED transactions
       ELSE InitiateFailed(i, "InvalidDestinationAddress", calls[i])
    /\ UNCHANGED <<completion, chainVars, webhooks, attObserved, fetched, attCalls, outsideVars>>

\* checkUSDCBalance: getAccount on the payer's associated token account; the
\* account may be missing, or hold less than the amount
SolCheckBalance(i) ==
    /\ InSolCall(i, "balance")
    /\ \/ InitiateFailed(i, "TokenAccountMissing", calls[i])
       \/ \E balance \in TokenAmounts :
            IF balance < amountOf(i)
            THEN InitiateFailed(i, "InsufficientBalance",
                                [calls[i] EXCEPT !.balance = balance])
            ELSE /\ calls' = [calls EXCEPT ![i].pc = "burnSubmit",
                                           ![i].balance = balance]
                 /\ ret' = NoResponse
                 /\ UNCHANGED transactions
    /\ UNCHANGED <<completion, chainVars, webhooks, attObserved, fetched, attCalls, outsideVars>>

\* executeBurnTransaction / sendBurnTransaction: one transaction holding the
\* event-account creation and the burn instruction is sent
SolBurnSubmit(i) ==
    /\ InSolCall(i, "burnSubmit")
    /\ \E accepted \in BOOLEAN :
          IF accepted
          THEN /\ calls' = [calls EXCEPT ![i].pc = "burnWait",
                               ![i].burnSubmits = calls[i].burnSubmits + 1]
               /\ burnTx' = [burnTx EXCEPT ![i] = "sent"]
               /\ ret' = NoResponse
               /\ UNCHANGED transactions
          ELSE /\ InitiateFailed(i, "TransferExecutionFailed",
                      [calls[i] EXCEPT !.burnSubmits = calls[i].burnSubmits + 1])
               /\ UNCHANGED burnTx
    /\ UNCHANGED <<completion, attested, minted, webhooks, attObserved, fetched, attCalls, outsideVars>>

\* a wait that takes a reverted burn for a mined one
BurnWaitIgnoresRevert(i) ==
    /\ i \in DOMAIN transactions
    /\ calls[i].pc = "burnWait"
    /\ \E outcome \in {"mined", "reverted"} :
          /\ InitiateSucceeded(i, BurnHash(i))
          /\ burnTx' = [burnTx EXCEPT ![i] = outcome]
    /\ UNCHANGED <<completion, attested, minted, webhooks, attObserved, fetched, attCalls, outsideVars>>

\* burnTx.wait() / sendAndConfirmTransaction: the burn is mined and the hash
\* returned, or it reverted and wait() throws, or the wait itself fails while
\* the burn is mined all the same
BurnWait(i) ==
    /\ i \in DOMAIN transactions
    /\ calls[i].pc = "burnWait"
    /\ \E outcome \in {"mined", "reverted", "waitFailed"} :
          CASE outcome = "mined" ->
                 /\ InitiateSucceeded(i, BurnHash(i))
                 /\ burnTx' = [burnTx EXCEPT ![i] = "mined"]
            [] outcome = "reverted" ->
                 /\ InitiateFailed(i, "TransferExecutionFailed", calls[i])
                 /\ burnTx' = [burnTx EXCEPT ![i] = "reverted"]
            [] outcome = "waitFailed" ->
                 /\ InitiateFailed(i, "TransferExecutionFailed", calls[i])
                 /\ burnTx' = [burnTx EXCEPT ![i] = "mined"]
    /\ UNCHANGED <<completion, attested, minted, webhooks, attObserved, fetched, attCalls, outsideVars>>

\* ------------------------------------------------------ completeTransfer
\* the transfer a message belongs to (0: none, the bytes are no real message)
TransferOf(message) == IF message = NoValue THEN 0 ELSE message[2]

\* messages and attestations a caller can hold: a message exists once its burn
\* is mined, an attestation once the attestor has signed; anything else a
\* caller sends is made up
KnownMessages == {MessageOf(i) : i \in {j \in TxIds : burnTx[j] = "mined"}}
KnownAttestations == {AttestationOf(i) : i \in attested}

\* Transaction.findOne({ messageBytes: message }): a matching id, or 0
FindByMessage(message) ==
    LET found == {t \in DOMAIN transactions :
                     transactions[t].messageBytes = message} IN
    IF found = {} THEN {0} ELSE found

\* the request checks of completeTransfer, then the start of the executor:
\* the Solana executor parses the message before its first I/O
CompleteTransfer(message, attestation, destinationChain) ==
    /\ completion.pc = "idle"
    /\ IF message = NoValue \/ attestation = NoValue \/ destinationChain = ""
       THEN /\ ret' = Response("completeTransfer", 0, "rejected",
                               "Missing required fields", NoValue)
            /\ UNCHANGED completion
       ELSE IF destinationChain \notin SupportedChainId
       THEN /\ ret' = Response("completeTransfer", 0, "rejected",
                               "Unsupported destination chain", NoValue)
            /\ UNCHANGED completion
       ELSE IF isSolanaChain(destinationChain) /\ message = GarbageMessage
       THEN /\ ret' = ResponseWith("completeTransfer", 0, "error",
                                   "MalformedMessage", NoValue, <<0, 0>>)
            /\ UNCHANGED completion
       ELSE /\ completion' = [pc |-> IF isSolanaChain(destinationChain)
                                     THEN "ensureAccount" ELSE "submit",
                              message |-> message,
                              attestation |-> attestation,
                              destinationChain |-> destinationChain,
                              recordCompleted |->
                                  /\ TransferOf(message) \in DOMAIN transactions
                                  /\ transactions[TransferOf(message)].status
                                        = "completed",
                              account |-> "unchecked", ataOwner |-> NoValue,
                              ataSubmits |-> 0,
                              mintSubmits |-> 0]
            /\ ret' = NoResponse
    /\ UNCHANGED <<transactions, calls, chainVars, webhooks,
                   attObserved, fetched, attCalls, outsideVars>>

\* the call ends with an error passed to next(error): completeTransfer has no
\* catch block of its own and writes nothing to the record.  The response
\* data is <<record updated (0: none), mint submissions the call made>>
CompleteFailed(e, call) ==
    /\ completion' = IdleCompletion
    /\ ret' = ResponseWith("completeTransfer", TransferOf(call.message), "error",
                           e, NoValue, <<0, call.mintSubmits>>)
    /\ UNCHANGED transactions

\* SolanaCCTPService.ensureTokenAccountExists: the account exists, or it is
\* missing and a creation transaction is sent and confirmed, or that fails
\* the mintRecipient bytes of the burn body of a message
MintRecipientOf(message) == <<"mintRecipient", TransferOf(message)>>

\* an executor for which a missing token account is an error
SolTokenAccountRequired ==
    /\ completion.pc = "ensureAccount"
    /\ \E outcome \in {"exists", "missing", "lookupFailed"} :
          CASE outcome = "exists" ->
                 /\ completion' = [completion EXCEPT !.pc = "submit",
                                                     !.account = "exists"]
                 /\ ret' = NoResponse
                 /\ UNCHANGED transactions
            [] outcome = "missing" ->
                 CompleteFailed("TokenAccountMissing", completion)
            [] outcome = "lookupFailed" ->
                 CompleteFailed("TransferExecutionFailed", completion)
    /\ UNCHANGED <<calls, chainVars, webhooks, attObserved, fetched, attCalls, outsideVars>>

\* ensureTokenAccountExists: getAccount finds the mint recipient's token
\* account; or it is missing (TokenAccountNotFoundError) and the transaction
\* that creates it, with the mint recipient as owner, is sent and confirmed
\* by sendAndConfirmTransaction, or fails; or getAccount fails otherwise
SolEnsureTokenAccountExists ==
    /\ completion.pc = "ensureAccount"
    /\ \E outcome \in {"exists", "created", "createFailed", "lookupFailed"} :
          CASE outcome = "exists" ->
                 /\ completion' = [completion EXCEPT !.pc = "submit",
                                                     !.account = "exists"]
                 /\ ret' = NoResponse
                 /\ UNCHANGED transactions
            [] outcome = "created" ->
                 /\ completion' = [completion EXCEPT !.pc = "submit",
                                      !.account = "created",
                                      !.ataOwner = MintRecipientOf(completion.message),
                                      !.ataSubmits = completion.ataSubmits + 1]
                 /\ ret' = NoResponse
                 /\ UNCHANGED transactions
            [] outcome = "createFailed" ->
                 CompleteFailed("TransferExecutionFailed",
                     [completion EXCEPT !.ataSubmits = completion.ataSubmits + 1])
            [] outcome = "lookupFailed" ->
                 CompleteFailed("TransferExecutionFailed", completion)
    /\ UNCHANGED <<calls, chainVars, webhooks, attObserved, fetched, attCalls, outsideVars>>

\* receiveMessage(message, attestation) / sendReceiveMessageTransaction: the
\* mint transaction is submitted
CompleteSubmit ==
    /\ completion.pc = "submit"
    /\ \E accepted \in BOOLEAN :
          IF accepted
          THEN /\ completion' = [completion EXCEPT !.pc = "wait",
                                    !.mintSubmits = completion.mintSubmits + 1]
               /\ ret' = NoResponse
               /\ UNCHANGED transactions
          ELSE CompleteFailed("TransferExecutionFailed",
                   [completion EXCEPT !.mintSubmits = completion.mintSubmits + 1])
    /\ UNCHANGED <<calls, chainVars, webhooks, attObserved, fetched, attCalls, outsideVars>>

\* what the destination chain's message transmitter accepts: the message of a
\* mined burn bound for this chain, with its attestation, not received before
CanMint(message, attestation, destinationChain) ==
    LET i == TransferOf(message) IN
    /\ i \in TxIds
    /\ burnTx[i] = "mined"
    /\ i \in attested
    /\ i \notin minted
    /\ attestation = AttestationOf(i)
    /\ i \in DOMAIN transactions
    /\ transactions[i].destinationChain = destinationChain

\* the record update after the executor returned the mint hash:
\* findOne({ messageBytes: message }), then mintTxHash and status 'completed'
CompleteSucceeded(t, h) ==
    /\ transactions' = IF t = 0 THEN transactions
                       ELSE [transactions EXCEPT ![t].mintTxHash = h,
                                                 ![t].status = "completed"]
    /\ completion' = IdleCompletion
    /\ ret' = ResponseWith("completeTransfer", TransferOf(completion.message),
                           "ok", "none", h, <<t, completion.mintSubmits>>)

\* receiveTx.wait() / confirmation: the mint is confirmed and the record is
\* updated, or it reverted, or the wait failed while the mint went through
CompleteWait ==
    /\ completion.pc = "wait"
    /\ LET i == TransferOf(completion.message) IN
       \/ /\ CanMint(completion.message, completion.attestation,
                     completion.destinationChain)
          /\ minted' = minted \cup {i}
          /\ \E t \in FindByMessage(completion.message) :
                CompleteSucceeded(t, MintHash(i))
       \/ /\ CompleteFailed("TransferExecutionFailed", completion)
          /\ UNCHANGED minted
       \/ /\ CanMint(completion.message, completion.attestation,
                     completion.destinationChain)
          /\ minted' = minted \cup {i}
          /\ CompleteFailed("TransferExecutionFailed", completion)
    /\ UNCHANGED <<calls, burnTx, attested, webhooks, attObserved, fetched, attCalls, outsideVars>>

\* -------------------------------------------------------- getAttestation
\* Transaction.findOne({ $or: [{transactionHash}, {burnTxHash}] }): a matching
\* id, or 0; which of several matches is returned is up to the database
FindByBurnHash(txHash) ==
    LET found == {t \in DOMAIN transactions :
                     \/ transactions[t].transactionHash = txHash
                     \/ transactions[t].burnTxHash = txHash} IN
    IF found = {} THEN {0} ELSE found

\* the transfer whose burn on sourceChain has this hash (0: none)
BurnOn(sourceChain, txHash) ==
    LET found == {i \in DOMAIN transactions :
                     /\ txHash = BurnHash(i)
                     /\ transactions[i].sourceChain = sourceChain
                     /\ burnTx[i] = "mined"} IN
    IF found = {} THEN 0 ELSE CHOOSE i \in found : TRUE

\* answers the attestation service can give for (domain of sourceChain,
\* txHash): "complete" and "pending" need the burn to be indexed; "notFound"
\* (status 404), "noMessage" (an empty message list), "timeout" (no answer
\* within the request's timeout) and "error" (any other failure) are always
\* possible
IrisAnswers(sourceChain, txHash) ==
    LET i == BurnOn(sourceChain, txHash) IN
    {"notFound", "noMessage", "timeout", "error"}
    \cup (IF i # 0 /\ i \in attested THEN {"complete"} ELSE {})
    \cup (IF i # 0 /\ i \notin attested THEN {"pending"} ELSE {})

\* a handling of the answers that throws on a 404
irisOutcomeStrict(answer) ==
    CASE answer = "complete" -> "complete"
      [] answer \in {"pending", "noMessage"} -> "pending"
      [] answer \in {"notFound", "timeout", "error"} -> "throw"

\* what CCTPAttestationService.getAttestation makes of the service's answer:
\* messages[0] with status complete is 'complete', any other status and an
\* empty list are 'pending', an error with response status 404 is 'pending',
\* and every other error of the request, a timeout included, is thrown
irisOutcome(answer) ==
    CASE answer = "complete" -> "complete"
      [] answer \in {"pending", "noMessage", "notFound"} -> "pending"
      [] answer \in {"timeout", "error"} -> "throw"

\* the cache check of a service that never finds the attestation in the record
IsCachedNever(t) == FALSE

\* the cache check: the record found holds attestationHash and messageBytes
IsCached(t) ==
    /\ t # 0
    /\ transactions[t].attestationHash # NoValue
    /\ transactions[t].messageBytes # NoValue

\* the result of CCTPAttestationService.getAttestation as <<status, message,
\* attestation, messageHash>>, from the cache t or from the service's answer
AttestationResult(t, answer, i, withHash) ==
    IF IsCached(t)
    THEN <<"complete", transactions[t].messageBytes,
           transactions[t].attestationHash, transactions[t].messageHash>>
    ELSE IF irisOutcome(answer) = "complete"
    THEN <<"complete", MessageOf(i), AttestationOf(i),
           IF withHash THEN MessageHashOf(i) ELSE NoValue>>
    ELSE <<"pending", NoValue, NoValue, NoValue>>

\* a service that returns the complete response and caches nothing
CacheAttestationSkipped(txs, t, result) == txs

\* the service's cache write into the record it found; save() writes the
\* paths whose value changed, so an absent messageHash leaves the stored one
CacheAttestation(txs, t, result) ==
    IF t # 0 /\ result[1] = "complete"
    THEN [txs EXCEPT ![t].attestationHash = result[3],
                     ![t].messageBytes = result[2],
                     ![t].messageHash = IF result[4] = NoValue THEN @
                                        ELSE result[4]]
    ELSE txs

\* the controller's update of the record it finds after the service returned
ControllerAttestationUpdate(txs, t2, result) ==
    IF t2 # 0 /\ result[4] # NoValue
    THEN [txs EXCEPT ![t2].messageHash = result[4],
                     ![t2].messageBytes = result[2],
                     ![t2].attestationHash = result[3]]
    ELSE txs

\* CCTPController.getAttestation with CCTPAttestationService.getAttestation.
\* The response data is <<status, message, attestation, messageHash, calls
\* made to the attestation service, sourceChain, what answered>>
GetAttestation(sourceChain, txHash) ==
    /\ IF sourceChain \notin SupportedChainId
       THEN /\ ret' = Response("getAttestation", 0, "rejected",
                               "Invalid source chain", NoValue)
            /\ UNCHANGED <<transactions, attObserved, fetched, attCalls, outsideVars>>
       ELSE \E t \in FindByBurnHash(txHash), t2 \in FindByBurnHash(txHash),
               answer \in IrisAnswers(sourceChain, txHash),
               withHash \in BOOLEAN :
              LET i == BurnOn(sourceChain, txHash)
                  result == AttestationResult(t, answer, i, withHash)
              IN
              IF ~IsCached(t) /\ irisOutcome(answer) = "throw"
              THEN /\ ret' = ResponseWith("getAttestation", t, "error",
                                 "IRIS API error", txHash,
                                 <<"none", NoValue, NoValue, NoValue, 1,
                                   sourceChain, answer>>)
                   /\ UNCHANGED <<transactions, attObserved, fetched, attCalls, outsideVars>>
              ELSE /\ transactions' =
                          ControllerAttestationUpdate(
                              IF IsCached(t) THEN transactions
                              ELSE CacheAttestation(transactions, t, result),
                              t2, result)
                   /\ attObserved' =
                          IF result[1] = "complete"
                          THEN attObserved \cup {TransferOf(result[2])}
                          ELSE attObserved
                   /\ fetched' =
                          IF ~IsCached(t) /\ irisOutcome(answer) = "complete"
                             /\ fetched[i] = -1
                          THEN [fetched EXCEPT ![i] = t]
                          ELSE fetched
                   /\ ret' = ResponseWith("getAttestation", t, result[1], "none",
                                 txHash,
                                 result \o <<IF IsCached(t) THEN 0 ELSE 1,
                                             sourceChain,
                                             IF IsCached(t) THEN "record"
                                                            ELSE answer>>)
    /\ UNCHANGED <<calls, completion, chainVars, webhooks, attCalls, outsideVars>>

\* the attestor signs the message of a mined burn
IrisAttest(i) ==
    /\ burnTx[i] = "mined"
    /\ i \notin attested
    /\ attested' = attested \cup {i}
    /\ ret' = NoResponse
    /\ UNCHANGED <<transactions, calls, completion, burnTx, minted,
                   webhooks, attObserved, fetched, attCalls, outsideVars>>

\* ----------------------------------------------------- getTransferStatus
\* Transaction.findOne({ $or: [{transactionHash}, {burnTxHash}, {mintTxHash}] })
FindByAnyHash(txHash) ==
    LET found == {t \in DOMAIN transactions :
                     \/ transactions[t].transactionHash = txHash
                     \/ transactions[t].burnTxHash = txHash
                     \/ transactions[t].mintTxHash = txHash} IN
    IF found = {} THEN {0} ELSE found

\* checkEVMTransactionStatus: what the receipt lookup can give for txHash on
\* the chain; a missing receipt or a failing RPC call both give 'pending'
EvmTransactionStatuses(chainId, txHash) ==
    {"pending"}
    \cup {"confirmed" : i \in {j \in DOMAIN transactions :
              \/ /\ txHash = BurnHash(j) /\ burnTx[j] = "mined"
                 /\ transactions[j].sourceChain = chainId
              \/ /\ txHash = MintHash(j) /\ j \in minted
                 /\ transactions[j].destinationChain = chainId}}
    \cup {"failed" : i \in {j \in DOMAIN transactions :
              /\ txHash = BurnHash(j) /\ burnTx[j] = "reverted"
              /\ transactions[j].sourceChain = chainId}}

\* the status written back for a record: 'confirmed' replaces 'pending',
\* 'failed' replaces anything
reconciledStatus(dbStatus, txStatus) ==
    IF txStatus = "confirmed" /\ dbStatus = "pending" THEN "confirmed"
    ELSE IF txStatus = "failed" THEN "failed"
    ELSE dbStatus

\* a canComplete that looks at the attestation alone
canCompleteAttestationOnly(txStatus, attestationStatus) ==
    attestationStatus = "complete"

canComplete(txStatus, attestationStatus) ==
    txStatus = "confirmed" /\ attestationStatus = "complete"

\* checkAttestationStatus: the statuses it can report, given the answers the
\* attestation service can give; every answer but "complete" is 'pending'
checkAttestationStatus(answers) ==
    {IF answer = "complete" THEN "complete" ELSE "pending" : answer \in answers}

\* CCTPStatusService.getTransferStatus(sourceChain, txHash).  The controller
\* calls it after its own lookup found no record; the service looks the record
\* up again, after further awaits, and by then the record may exist and carry
\* the hash, so the service's run is a step of its own
StatusServiceGetTransferStatus(sourceChain, txHash) ==
    /\ IF sourceChain \notin SupportedChainId
       THEN /\ ret' = Response("getTransferStatus", 0, "error",
                               "UnsupportedChain", NoValue)
            /\ UNCHANGED <<transactions, attObserved>>
       ELSE \E t \in FindByAnyHash(txHash),
               txStatus \in (IF isSolanaChain(sourceChain) THEN {"confirmed"}
                             ELSE EvmTransactionStatuses(sourceChain, txHash)),
               attestationStatus \in
                   checkAttestationStatus(IrisAnswers(sourceChain, txHash)) :
              /\ transactions' =
                    IF t = 0 THEN transactions
                    ELSE [transactions EXCEPT ![t].status =
                             reconciledStatus(transactions[t].status, txStatus)]
              /\ attObserved' =
                    IF attestationStatus = "complete"
                    THEN attObserved \cup {BurnOn(sourceChain, txHash)}
                    ELSE attObserved
              /\ ret' = ResponseWith("getTransferStatus", t, "checked", "none",
                            txHash,
                            <<txStatus, attestationStatus,
                              canComplete(txStatus, attestationStatus),
                              sourceChain>>)
    /\ UNCHANGED <<calls, completion, chainVars, webhooks, fetched, attCalls, outsideVars>>

\* CCTPController.getTransferStatus: the record found by transactionId or by
\* hash is returned as stored; without a record the status service answers
GetTransferStatus(transactionId, sourceChain, txHash) ==
    IF sourceChain \notin SupportedChainId /\ transactionId = 0
    THEN /\ ret' = Response("getTransferStatus", 0, "rejected",
                            "Invalid source chain or missing transaction ID",
                            NoValue)
         /\ UNCHANGED <<transactions, calls, completion, chainVars, webhooks,
                        attObserved, fetched, attCalls, outsideVars>>
    ELSE IF transactionId \in DOMAIN transactions \/ FindByAnyHash(txHash) # {0}
    THEN /\ \E t \in (IF transactionId \in DOMAIN transactions
                      THEN {transactionId} ELSE FindByAnyHash(txHash)) :
               ret' = ResponseWith("getTransferStatus", t, "stored", "none",
                                   NoValue, <<transactions[t].status>>)
         /\ UNCHANGED <<transactions, calls, completion, chainVars, webhooks,
                        attObserved, fetched, attCalls, outsideVars>>
    ELSE StatusServiceGetTransferStatus(sourceChain, txHash)

\* ------------------------------------------------- transaction webhooks
WebhookTypes == {"transactions.created", "transactions.updated",
                 "transactions.confirmed", "transactions.failed"}

CircleStatuses == {"pending", "confirmed", "complete", "failed", "queued"}

\* WebhookService.mapCircleTransactionStatus
mapCircleTransactionStatus(circleStatus) ==
    CASE circleStatus = "pending" -> "pending"
      [] circleStatus = "confirmed" -> "confirmed"
      [] circleStatus = "complete" -> "completed"
      [] circleStatus = "failed" -> "failed"
      [] OTHER -> "pending"

\* the status a webhook of this type writes
webhookStatus(notificationType, circleStatus) ==
    CASE notificationType = "transactions.created" -> "pending"
      [] notificationType = "transactions.updated" ->
             mapCircleTransactionStatus(circleStatus)
      [] notificationType = "transactions.confirmed" -> "confirmed"
      [] notificationType = "transactions.failed" -> "failed"

\* WebhookService.processTransactionWebhook
ProcessTransactionWebhook(notificationType, id, circleStatus, payloadHash) ==
    /\ webhooks < MaxWebhooks
    /\ webhooks' = webhooks + 1
    /\ IF id \in DOMAIN transactions
       THEN transactions' = [transactions EXCEPT
                ![id].status = webhookStatus(notificationType, circleStatus),
                ![id].transactionHash =
                    IF notificationType = "transactions.confirmed"
                       /\ payloadHash # NoValue
                    THEN payloadHash ELSE @]
       ELSE UNCHANGED transactions
    /\ ret' = NoResponse
    /\ UNCHANGED <<calls, completion, chainVars, attObserved, fetched, attCalls, outsideVars>>

\* ------------------------------------------------------------ specification
Hashes == {BurnHash(i) : i \in TxIds} \cup {MintHash(i) : i \in TxIds}

\* chains the requests name as source and as destination: one chain of each
\* family on either side, which gives the routes EVM to EVM, EVM to Solana and
\* Solana to EVM (the other EVM chains behave as these two do)
RequestSourceChains == {"ETH_SEPOLIA", "SOLANA_DEVNET"}
RequestDestinationChains == {"BASE_SEPOLIA", "SOLANA_DEVNET"}

Next ==
    \/ \E i \in TxIds \ DOMAIN transactions,
          sourceChain \in RequestSourceChains \cup {"", "UNSUPPORTED"},
          destinationChain \in RequestDestinationChains \cup {"UNSUPPORTED"},
          amount \in AmountStrings, sourceAddress \in {"", "evm"},
          destinationAddress \in AddressKinds \cup {""} :
          InitiateTransfer(i, sourceChain, destinationChain, amount,
                           sourceAddress, destinationAddress)
    \/ \E i \in TxIds : EvmCheckBalance(i)
    \/ \E i \in TxIds : EvmCheckAllowance(i)
    \/ \E i \in TxIds : EvmApproveSubmit(i)
    \/ \E i \in TxIds : EvmApproveWait(i)
    \/ \E i \in TxIds : EvmBurnSubmit(i)
    \/ \E i \in TxIds : SolPrepareMintRecipient(i)
    \/ \E i \in TxIds : SolCheckBalance(i)
    \/ \E i \in TxIds : SolBurnSubmit(i)
    \/ \E i \in TxIds : BurnWait(i)
    \/ \E i \in TxIds : IrisAttest(i)
    \/ \E sourceChain \in RequestSourceChains \cup {"UNSUPPORTED"},
          txHash \in {BurnHash(i) : i \in TxIds} :
          GetAttestation(sourceChain, txHash)
    \/ \E message \in KnownMessages \cup {NoValue} :
          \E attestation \in (KnownAttestations
                                  \cap {AttestationOf(TransferOf(message))})
                              \cup {NoValue, BogusAttestation},
             destinationChain \in RequestDestinationChains \cup {"", "UNSUPPORTED"} :
             CompleteTransfer(message, attestation, destinationChain)
    \/ CompleteTransfer(GarbageMessage, BogusAttestation, "SOLANA_DEVNET")
    \/ SolEnsureTokenAccountExists
    \/ CompleteSubmit
    \/ CompleteWait
    \/ \E transactionId \in TxIds \cup {0},
          sourceChain \in RequestSourceChains \cup {"UNSUPPORTED"},
          txHash \in Hashes :
          GetTransferStatus(transactionId, sourceChain, txHash)
    \/ \E sourceChain \in RequestSourceChains \cup {"UNSUPPORTED"},
          txHash \in Hashes :
          StatusServiceGetTransferStatus(sourceChain, txHash)
    \/ \E notificationType \in WebhookTypes, id \in TxIds,
          circleStatus \in CircleStatuses,
          payloadHash \in {NoValue} \cup {BurnHash(i) : i \in TxIds} :
          ProcessTransactionWebhook(notificationType, id, circleStatus,
                                    payloadHash)

Spec == Init /\ [][Next]_vars

\* ------------------------------------- initiateTransfer, sessionId reused
\* initiateTransfer calls whose sessionId may be one already used, while the
\* call that used it first is running or after it ended.  (In Spec every
\* call brings a sessionId of its own.)
NextSession ==
    \/ \E i \in TxIds, sourceChain \in RequestSourceChains \cup {"UNSUPPORTED"},
          destinationChain \in RequestDestinationChains,
          amount \in AmountStrings, destinationAddress \in AddressKinds :
          InitiateTransfer(i, sourceChain, destinationChain, amount, "evm",
                           destinationAddress)
    \/ \E i \in TxIds : EvmCheckBalance(i)
    \/ \E i \in TxIds : EvmCheckAllowance(i)
    \/ \E i \in TxIds : EvmApproveSubmit(i)
    \/ \E i \in TxIds : EvmApproveWait(i)
    \/ \E i \in TxIds : EvmBurnSubmit(i)
    \/ \E i \in TxIds : SolPrepareMintRecipient(i)
    \/ \E i \in TxIds : SolCheckBalance(i)
    \/ \E i \in TxIds : SolBurnSubmit(i)
    \/ \E i \in TxIds : BurnWait(i)

SpecSession == Init /\ [][NextSession]_vars

\* ------------------------------------- getAttestation, await by await
\* Concurrent getAttestation calls for one reference, started after a
\* successful initiateTransfer.  Each call is followed through its awaits: the
\* service's record lookup, its query of the attestation service, its cache
\* write, and the controller's lookup and update with the response.
\* GetAttestation above is the same call run with nothing in between.
AttSourceChain == "ETH_SEPOLIA"
AttTxHash == BurnHash(1)

orchestrationVars == <<calls, completion, burnTx, minted, webhooks,
                       attObserved, fetched, outsideVars>>

\* the state after initiateTransfer returned the burn hash of transfer 1
InitAttestation ==
    /\ transactions =
          (1 :> [NewTransaction(AttSourceChain, "BASE_SEPOLIA", "1", "evm", "evm")
                    EXCEPT !.transactionHash = AttTxHash,
                           !.burnTxHash = AttTxHash,
                           !.status = "confirmed"])
    /\ calls = [i \in TxIds |->
                   IF i = 1 THEN [IdleCall EXCEPT !.pc = "done",
                                                  !.balance = UsdcUnit,
                                                  !.burnSubmits = 1]
                   ELSE IdleCall]
    /\ completion = IdleCompletion
    /\ burnTx = [i \in TxIds |-> IF i = 1 THEN "mined" ELSE "none"]
    /\ attested = {}
    /\ minted = {}
    /\ webhooks = 0
    /\ attObserved = {}
    /\ fetched = [i \in TxIds |-> -1]
    /\ attCalls = [c \in Callers |-> IdleAttCall]
    /\ parser = NoParserCall
    /\ hook = NoHook
    /\ token = NoToken
    /\ encoder = NoEncoding
    /\ payments = NoPayments
    /\ ret = NoResponse

\* the service's Transaction.findOne and its cache check on the document read
AttLookup(c) ==
    /\ attCalls[c].pc = "idle"
    /\ \E t \in FindByBurnHash(AttTxHash) :
          attCalls' = [attCalls EXCEPT ![c] =
              [pc |-> IF IsCached(t) THEN "controller" ELSE "query",
               t |-> t,
               afterWrite |-> /\ t # 0
                              /\ transactions[t].attestationHash # NoValue
                              /\ transactions[t].messageBytes # NoValue,
               result |-> IF IsCached(t)
                          THEN AttestationResult(t, "pending", 0, FALSE)
                          ELSE IdleAttCall.result,
               externalCalls |-> 0,
               answer |-> "none"]]
    /\ ret' = NoResponse
    /\ UNCHANGED <<transactions, attested, orchestrationVars>>

\* the axios request and what the service makes of the answer; the document
\* in memory is the one read by the lookup, whatever was saved since
AttQuery(c) ==
    /\ attCalls[c].pc = "query"
    /\ \E answer \in IrisAnswers(AttSourceChain, AttTxHash), withHash \in BOOLEAN :
          IF irisOutcome(answer) = "throw"
          THEN /\ attCalls' = [attCalls EXCEPT ![c] = IdleAttCall]
               /\ ret' = ResponseWith("getAttestation", attCalls[c].t, "error",
                             "IRIS API error", AttTxHash,
                             <<"none", NoValue, NoValue, NoValue, 1,
                               AttSourceChain, answer>>)
          ELSE LET result == AttestationResult(0, answer,
                                 BurnOn(AttSourceChain, AttTxHash), withHash)
               IN
               /\ attCalls' = [attCalls EXCEPT
                      ![c].pc = IF result[1] = "complete" /\ attCalls[c].t # 0
                                THEN "cache" ELSE "controller",
                      ![c].result = result,
                      ![c].externalCalls = 1,
                      ![c].answer = answer]
               /\ ret' = NoResponse
    /\ UNCHANGED <<transactions, attested, orchestrationVars>>

\* a cache write that saves the attestation and leaves the message out
AttCacheWritePartial(c) ==
    /\ attCalls[c].pc = "cache"
    /\ transactions' = [transactions EXCEPT
                           ![attCalls[c].t].attestationHash = attCalls[c].result[3]]
    /\ attCalls' = [attCalls EXCEPT ![c].pc = "controller"]
    /\ ret' = NoResponse
    /\ UNCHANGED <<attested, orchestrationVars>>

\* the service's transaction.save() of the complete response
AttCacheWrite(c) ==
    /\ attCalls[c].pc = "cache"
    /\ transactions' = CacheAttestation(transactions, attCalls[c].t,
                                        attCalls[c].result)
    /\ attCalls' = [attCalls EXCEPT ![c].pc = "controller"]
    /\ ret' = NoResponse
    /\ UNCHANGED <<attested, orchestrationVars>>

\* the controller's Transaction.findOne, its update of the record when the
\* response has a messageHash, and the response to the caller
AttControllerUpdate(c) ==
    /\ attCalls[c].pc = "controller"
    /\ \E t2 \in FindByBurnHash(AttTxHash) :
          transactions' = ControllerAttestationUpdate(transactions, t2,
                                                      attCalls[c].result)
    /\ ret' = ResponseWith("getAttestation", attCalls[c].t,
                  attCalls[c].result[1], "none", AttTxHash,
                  attCalls[c].result
                     \o <<attCalls[c].externalCalls, AttSourceChain,
                          IF attCalls[c].externalCalls = 0 THEN "record"
                          ELSE attCalls[c].answer>>)
    /\ attCalls' = [attCalls EXCEPT ![c] = IdleAttCall]
    /\ UNCHANGED <<attested, orchestrationVars>>

NextAttestation ==
    \/ \E c \in Callers : AttLookup(c)
    \/ \E c \in Callers : AttQuery(c)
    \/ \E c \in Callers : AttCacheWrite(c)
    \/ \E c \in Callers : AttControllerUpdate(c)
    \/ \E i \in TxIds : IrisAttest(i)

SpecAttestation == InitAttestation /\ [][NextAttestation]_vars

\* ------------------------------------------------------- messageParser
\* A buffer is modelled by its length; a field that parseMessage or
\* parseDepositForBurnMessage slices out of it by the length of the slice.
MaxMessageBytes == 120

MESSAGE_VERSION_OFFSET == 0
SOURCE_DOMAIN_OFFSET == 4
DESTINATION_DOMAIN_OFFSET == 8
NONCE_OFFSET == 12
SENDER_OFFSET == 20
RECIPIENT_OFFSET == 52
DESTINATION_CALLER_OFFSET == 84
MESSAGE_BODY_OFFSET == 116
BURN_TOKEN_OFFSET == 12
MINT_RECIPIENT_OFFSET == 44
AMOUNT_OFFSET == 76
MESSAGE_SENDER_OFFSET == 84

backendVars == <<transactions, calls, completion, burnTx, attested, minted,
                 webhooks, attObserved, fetched, attCalls, ret>>

Min(a, b) == IF a <= b THEN a ELSE b

\* Buffer.from(hex, 'hex'): one byte for every two digits, a last single
\* digit is dropped
hexBufferLength(digits) == digits \div 2

\* buf.readUInt32BE(offset), buf.readBigUInt64BE(offset): the read succeeds
\* when the bytes are inside the buffer and throws a RangeError otherwise
readUInt32BE(length, offset) == offset + 4 <= length
readBigUInt64BE(length, offset) == offset + 8 <= length

\* buf.slice(start, end): both indexes are clamped to the buffer, nothing
\* is thrown; the value is the number of bytes in the slice
slice(length, start, end) == Min(end, length) - Min(start, length)

parseMessage(length) ==
    IF /\ readUInt32BE(length, MESSAGE_VERSION_OFFSET)
       /\ readUInt32BE(length, SOURCE_DOMAIN_OFFSET)
       /\ readUInt32BE(length, DESTINATION_DOMAIN_OFFSET)
       /\ readBigUInt64BE(length, NONCE_OFFSET)
    THEN [outcome |-> "parsed",
          parsed |-> [sender |-> slice(length, SENDER_OFFSET, SENDER_OFFSET + 32),
                      recipient |-> slice(length, RECIPIENT_OFFSET,
                                          RECIPIENT_OFFSET + 32),
                      destinationCaller |->
                          slice(length, DESTINATION_CALLER_OFFSET,
                                DESTINATION_CALLER_OFFSET + 32),
                      messageBody |-> slice(length, MESSAGE_BODY_OFFSET, length)]]
    ELSE [outcome |-> "RangeError", parsed |-> NoValue]

parseDepositForBurnMessage(length) ==
    IF /\ readUInt32BE(length, 0)
       /\ readBigUInt64BE(length, AMOUNT_OFFSET)
    THEN [outcome |-> "parsed",
          parsed |-> [burnToken |-> slice(length, BURN_TOKEN_OFFSET,
                                          BURN_TOKEN_OFFSET + 32),
                      mintRecipient |-> slice(length, MINT_RECIPIENT_OFFSET,
                                              MINT_RECIPIENT_OFFSET + 32),
                      messageSender |-> slice(length, MESSAGE_SENDER_OFFSET,
                                              MESSAGE_SENDER_OFFSET + 32)]]
    ELSE [outcome |-> "RangeError", parsed |-> NoValue]

\* the inputs: a hex string of some number of digits, with or without the
\* 0x prefix, for parseMessage; a buffer of some length for
\* parseDepositForBurnMessage
ParserInputs ==
    {[NoParserCall EXCEPT !.kind = "hex", !.length = digits, !.prefixed = prefixed] :
        digits \in 0..(2 * MaxMessageBytes + 1), prefixed \in BOOLEAN}
    \cup {[NoParserCall EXCEPT !.kind = "buffer", !.length = length] :
             length \in 0..MaxMessageBytes}

InitParser ==
    /\ transactions = <<>>
    /\ calls = [i \in TxIds |-> IdleCall]
    /\ completion = IdleCompletion
    /\ burnTx = [i \in TxIds |-> "none"]
    /\ attested = {}
    /\ minted = {}
    /\ webhooks = 0
    /\ attObserved = {}
    /\ fetched = [i \in TxIds |-> -1]
    /\ attCalls = [c \in Callers |-> IdleAttCall]
    /\ parser \in ParserInputs
    /\ hook = NoHook
    /\ token = NoToken
    /\ encoder = NoEncoding
    /\ payments = NoPayments
    /\ ret = NoResponse

ParseMessage ==
    /\ parser.kind = "hex" /\ parser.outcome = "none"
    /\ LET result == parseMessage(hexBufferLength(parser.length)) IN
       parser' = [parser EXCEPT !.outcome = result.outcome,
                                !.parsed = result.parsed]
    /\ UNCHANGED <<backendVars, hook, token, encoder, payments>>

ParseDepositForBurnMessage ==
    /\ parser.kind = "buffer" /\ parser.outcome = "none"
    /\ LET result == parseDepositForBurnMessage(parser.length) IN
       parser' = [parser EXCEPT !.outcome = result.outcome,
                                !.parsed = result.parsed]
    /\ UNCHANGED <<backendVars, hook, token, encoder, payments>>

NextParser ==
    \/ ParseMessage
    \/ ParseDepositForBurnMessage

SpecParser == InitParser /\ [][NextParser]_vars

\* ----------------------------------------------------- OmniCheckoutHook
\* The contract's configuration, from its deployment on.  An account is a
\* number, the zero address is 0.
MaxAccounts == 3
MaxCharityPercentage == 1000
ZeroAddress == 0

Accounts == 1..MaxAccounts
Addresses == {ZeroAddress} \cup Accounts
CharityPercentages == {0, 250, 500, MaxCharityPercentage,
                       MaxCharityPercentage + 1}

\* a call that reverted: the state is kept, the error is what the caller sees
Reverted(call, error) ==
    [hook EXCEPT !.call = call, !.error = error, !.returned = NoValue]

\* constructor(_usdc, _charityAddress, _charityPercentage), sent by sender
Deploy(sender, usdc, charityAddress, charityPercentage) ==
    /\ ~hook.deployed
    /\ hook' =
          IF usdc = ZeroAddress
          THEN Reverted("constructor", "InvalidCharityAddress")
          ELSE IF charityAddress = ZeroAddress
          THEN Reverted("constructor", "InvalidCharityAddress")
          ELSE IF charityPercentage > MaxCharityPercentage
          THEN Reverted("constructor", "InvalidPercentage")
          ELSE [deployed |-> TRUE, owner |-> sender, USDC |-> usdc,
                charityAddress |-> charityAddress,
                charityPercentage |-> charityPercentage,
                call |-> "constructor", error |-> "none", returned |-> NoValue]
    /\ UNCHANGED <<backendVars, parser, token, encoder, payments>>

\* an update that stores whatever the owner sends
UpdateCharityConfigUnchecked(sender, charityAddress, charityPercentage) ==
    /\ hook.deployed
    /\ hook' =
          IF sender # hook.owner
          THEN Reverted("updateCharityConfig", "OwnableUnauthorizedAccount")
          ELSE [hook EXCEPT !.charityAddress = charityAddress,
                            !.charityPercentage = charityPercentage,
                            !.call = "updateCharityConfig",
                            !.error = "none", !.returned = NoValue]
    /\ UNCHANGED <<backendVars, parser, token, encoder, payments>>

\* updateCharityConfig(_charityAddress, _charityPercentage) onlyOwner
UpdateCharityConfig(sender, charityAddress, charityPercentage) ==
    /\ hook.deployed
    /\ hook' =
          IF sender # hook.owner
          THEN Reverted("updateCharityConfig", "OwnableUnauthorizedAccount")
          ELSE IF charityAddress = ZeroAddress
          THEN Reverted("updateCharityConfig", "InvalidCharityAddress")
          ELSE IF charityPercentage > MaxCharityPercentage
          THEN Reverted("updateCharityConfig", "InvalidPercentage")
          ELSE [hook EXCEPT !.charityAddress = charityAddress,
                            !.charityPercentage = charityPercentage,
                            !.call = "updateCharityConfig",
                            !.error = "none", !.returned = NoValue]
    /\ UNCHANGED <<backendVars, parser, token, encoder, payments>>

\* getCharityConfig() view
GetCharityConfig ==
    /\ hook.deployed
    /\ hook' = [hook EXCEPT !.call = "getCharityConfig", !.error = "none",
                            !.returned = <<hook.charityAddress,
                                           hook.charityPercentage>>]
    /\ UNCHANGED <<backendVars, parser, token, encoder, payments>>

InitHook ==
    /\ transactions = <<>>
    /\ calls = [i \in TxIds |-> IdleCall]
    /\ completion = IdleCompletion
    /\ burnTx = [i \in TxIds |-> "none"]
    /\ attested = {}
    /\ minted = {}
    /\ webhooks = 0
    /\ attObserved = {}
    /\ fetched = [i \in TxIds |-> -1]
    /\ attCalls = [c \in Callers |-> IdleAttCall]
    /\ parser = NoParserCall
    /\ hook = NoHook
    /\ token = NoToken
    /\ encoder = NoEncoding
    /\ payments = NoPayments
    /\ ret = NoResponse

NextHook ==
    \/ \E sender \in Accounts, usdc \in Addresses, charityAddress \in Addresses,
          charityPercentage \in CharityPercentages :
          Deploy(sender, usdc, charityAddress, charityPercentage)
    \/ \E sender \in Accounts, charityAddress \in Addresses,
          charityPercentage \in CharityPercentages :
          UpdateCharityConfig(sender, charityAddress, charityPercentage)
    \/ GetCharityConfig

SpecHook == InitHook /\ [][NextHook]_vars

\* -------------------------------------------- OmniCheckoutHook.executeHook
\* The contract with the USDC token it pays from.  The token is the mock
\* ERC20 of the tests: anyone mints, a transfer of more than the sender's
\* balance reverts.
MaxTokenSupply == 80
BasisPoints == 10000

HookAddress == MaxAccounts + 1
TokenHolders == Accounts \cup {HookAddress}
HookAmounts == {0, 39, 40}

RECURSIVE totalSupply(_, _)
totalSupply(balances, n) ==
    IF n = 0 THEN 0 ELSE balances[n] + totalSupply(balances, n - 1)

\* calculateCharityAmount's and executeHook's split of an amount
charityAmountOf(amount) == (amount * hook.charityPercentage) \div BasisPoints
recipientAmountOf(amount) == amount - charityAmountOf(amount)

\* ERC20.transfer(to, value) sent by from
transfer(balances, from, to, value) ==
    [a \in DOMAIN balances |->
        balances[a] - (IF a = from THEN value ELSE 0) + (IF a = to THEN value ELSE 0)]

\* MockUSDC.mint(hook, amount): what the message transmitter does before it
\* calls the hook
MintToHook(amount) ==
    /\ hook.deployed
    /\ amount > 0
    /\ totalSupply(token, HookAddress) + amount <= MaxTokenSupply
    /\ token' = [token EXCEPT ![HookAddress] = @ + amount]
    /\ hook' = [hook EXCEPT !.call = "mint", !.error = "none", !.returned = NoValue]
    /\ UNCHANGED <<backendVars, parser, encoder, payments>>

\* an executeHook call that reverted, with its arguments
RevertedHook(recipient, amount, error) ==
    [hook EXCEPT !.call = "executeHook", !.error = error,
                 !.returned = <<recipient, amount>>]

\* an executeHook that gives the charity its share and the recipient the
\* whole amount
ExecuteHookFullToRecipient(recipient, amount) ==
    /\ hook.deployed
    /\ IF amount = 0
       THEN /\ hook' = RevertedHook(recipient, amount, "InsufficientAmount")
            /\ UNCHANGED token
       ELSE IF token[HookAddress] < amount + charityAmountOf(amount)
       THEN /\ hook' = RevertedHook(recipient, amount, "ERC20InsufficientBalance")
            /\ UNCHANGED token
       ELSE /\ token' = transfer(transfer(token, HookAddress, recipient, amount),
                                 HookAddress, hook.charityAddress,
                                 charityAmountOf(amount))
            /\ hook' = [hook EXCEPT !.call = "executeHook", !.error = "none",
                                    !.returned = <<recipient, amount, amount,
                                                   charityAmountOf(amount)>>]
    /\ UNCHANGED <<backendVars, parser, encoder, payments>>

\* executeHook(recipient, amount, messageHash), callable by anyone.  The
\* value kept of the call is its recipient and amount and, from the
\* HookExecuted event, the amounts sent to the recipient and to the charity.
ExecuteHook(recipient, amount) ==
    /\ hook.deployed
    /\ IF amount = 0
       THEN /\ hook' = RevertedHook(recipient, amount, "InsufficientAmount")
            /\ UNCHANGED token
       ELSE LET charityAmount == charityAmountOf(amount)
                recipientAmount == amount - charityAmount
                afterRecipient ==
                    IF recipientAmount > 0
                    THEN transfer(token, HookAddress, recipient, recipientAmount)
                    ELSE token
                afterCharity ==
                    IF charityAmount > 0 /\ hook.charityAddress # ZeroAddress
                    THEN transfer(afterRecipient, HookAddress,
                                  hook.charityAddress, charityAmount)
                    ELSE afterRecipient
            IN
            IF afterRecipient[HookAddress] < 0 \/ afterCharity[HookAddress] < 0
            THEN /\ hook' = RevertedHook(recipient, amount, "ERC20InsufficientBalance")
                 /\ UNCHANGED token
            ELSE /\ token' = afterCharity
                 /\ hook' = [hook EXCEPT !.call = "executeHook", !.error = "none",
                                         !.returned = <<recipient, amount,
                                                        recipientAmount,
                                                        charityAmount>>]
    /\ UNCHANGED <<backendVars, parser, encoder, payments>>

InitHookExecution ==
    /\ transactions = <<>>
    /\ calls = [i \in TxIds |-> IdleCall]
    /\ completion = IdleCompletion
    /\ burnTx = [i \in TxIds |-> "none"]
    /\ attested = {}
    /\ minted = {}
    /\ webhooks = 0
    /\ attObserved = {}
    /\ fetched = [i \in TxIds |-> -1]
    /\ attCalls = [c \in Callers |-> IdleAttCall]
    /\ parser = NoParserCall
    /\ hook = NoHook
    /\ token = [a \in TokenHolders |-> 0]
    /\ encoder = NoEncoding
    /\ payments = NoPayments
    /\ ret = NoResponse

NextHookExecution ==
    \/ \E charityAddress \in {1, 2}, charityPercentage \in CharityPercentages :
          Deploy(1, 1, charityAddress, charityPercentage)
    \/ \E amount \in HookAmounts : MintToHook(amount)
    \/ \E recipient \in Accounts, amount \in HookAmounts :
          ExecuteHook(recipient, amount)

SpecHookExecution == InitHookExecution /\ [][NextHookExecution]_vars

\* ------------------------------------------- the executors' byte encoders
\* prepareMintRecipient of both executors and the account-chain
\* buildDepositForBurnInstruction.  A byte is a number 0..255; a byte taken
\* from an address or from the discriminator, whose value does not matter,
\* is a number above 255 that says which byte it is.
MaxAddressBytes == 33
MintRecipientLength == 32
InstructionDataSize == 84

AddressByte(k) == 300 + k
DiscriminatorByte(k) == 400 + k

zeroBytes(n) == [k \in 1..n |-> 0]
addressBytes(n) == [k \in 1..n |-> AddressByte(k)]

\* a destinationAddress string: base58 or hex text for some number of bytes,
\* hex with or without the 0x prefix
AddressStrings ==
    {[encoding |-> "base58", length |-> n, prefixed |-> FALSE] :
        n \in 0..MaxAddressBytes}
    \cup {[encoding |-> "hex", length |-> n, prefixed |-> prefixed] :
             n \in 0..MaxAddressBytes, prefixed \in BOOLEAN}

Thrown(error) == [thrown |-> error, bytes |-> <<>>]
Returned(bytes) == [thrown |-> "none", bytes |-> bytes]

\* new PublicKey(destinationAddress).toBuffer(): the base58 text of 32 bytes
publicKeyBytes(address) ==
    IF address.encoding = "base58" /\ address.length = MintRecipientLength
    THEN Returned(addressBytes(address.length))
    ELSE Thrown("Invalid public key input")

\* an EVM executor that pads on the right
EvmPrepareMintRecipientPadRight(address, toSolana) ==
    IF toSolana
    THEN publicKeyBytes(address)
    ELSE IF address.encoding # "hex" \/ ~address.prefixed
    THEN Thrown("invalid BytesLike value")
    ELSE IF address.length > MintRecipientLength
    THEN Thrown("padding exceeds data length")
    ELSE Returned(addressBytes(address.length)
                  \o zeroBytes(MintRecipientLength - address.length))

\* EVMCCTPService.prepareMintRecipient: PublicKey bytes for an account-chain
\* destination, ethers.zeroPadValue(destinationAddress, 32) otherwise
EvmPrepareMintRecipient(address, toSolana) ==
    IF toSolana
    THEN IF publicKeyBytes(address).thrown = "none"
         THEN publicKeyBytes(address)
         ELSE Thrown("Invalid Solana destination address")
    ELSE IF address.encoding # "hex" \/ ~address.prefixed
    THEN Thrown("invalid BytesLike value")
    ELSE IF address.length > MintRecipientLength
    THEN Thrown("padding exceeds data length")
    ELSE Returned(zeroBytes(MintRecipientLength - address.length)
                  \o addressBytes(address.length))

\* SolanaCCTPService.prepareMintRecipient: PublicKey bytes for an
\* account-chain destination; otherwise the bytes Buffer.from(.., 'hex')
\* decodes (decoded of them: all of a hex text, those before the first
\* character that is no hex digit of any other text), copied to the end of
\* Buffer.alloc(32)
SolPrepareMintRecipient32(address, toSolana, decoded) ==
    IF toSolana
    THEN publicKeyBytes(address)
    ELSE IF decoded > MintRecipientLength
    THEN Thrown("ERR_OUT_OF_RANGE")
    ELSE Returned(zeroBytes(MintRecipientLength - decoded) \o addressBytes(decoded))

\* the byte counts Buffer.from(text, 'hex') can give for an address string
hexDecodedLengths(address) ==
    IF address.encoding = "hex" THEN {address.length}
    ELSE 0..Min(address.length, 1)

\* amountBuffer.writeBigUInt64LE / instructionData.writeUInt32LE: the n bytes
\* of value, lowest first
RECURSIVE littleEndian(_, _)
littleEndian(value, n) ==
    IF n = 0 THEN <<>> ELSE <<value % 256>> \o littleEndian(value \div 256, n - 1)

\* the n bytes of value, highest first
RECURSIVE bigEndian(_, _)
bigEndian(value, n) ==
    IF n = 0 THEN <<>> ELSE bigEndian(value \div 256, n - 1) \o <<value % 256>>

\* source.copy(target, offset): the bytes of source over those of target from
\* offset on, as far as target reaches
copy(source, target, offset) ==
    [k \in 1..Len(target) |->
        IF k > offset /\ k <= offset + Len(source) THEN source[k - offset]
        ELSE target[k]]

\* an instruction builder that writes the amount highest byte first
buildDepositForBurnInstructionBigEndian(discriminator, amount, destinationDomain, mintRecipientBytes) ==
    copy(zeroBytes(32),
         copy(mintRecipientBytes,
              copy(littleEndian(destinationDomain, 4),
                   copy(bigEndian(amount, 8),
                        copy(discriminator, zeroBytes(InstructionDataSize), 0), 8),
                   16),
              20),
         52)

\* SolanaCCTPService.buildDepositForBurnInstruction
buildDepositForBurnInstruction(discriminator, amount, destinationDomain, mintRecipientBytes) ==
    copy(zeroBytes(32),
         copy(mintRecipientBytes,
              copy(littleEndian(destinationDomain, 4),
                   copy(littleEndian(amount, 8),
                        copy(discriminator, zeroBytes(InstructionDataSize), 0), 8),
                   16),
              20),
         52)

\* getInstructionDiscriminator('global', 'deposit_for_burn'): 8 bytes
depositForBurnDiscriminator == [k \in 1..8 |-> DiscriminatorByte(k)]

\* amounts in USDC units and the destination domains of the chain table
MaxBurnAmount == 16777216
BurnAmounts == {1, 255, 256, 65535, 1000000, 10500000, MaxBurnAmount}
DestinationDomains == {0, 1, 2, 3, 5, 6, 7}

EncoderInputs ==
    {[kind |-> "mintRecipient",
      input |-> [executor |-> executor, toSolana |-> toSolana, address |-> address],
      output |-> NoValue] :
        executor \in {"evm", "solana"}, toSolana \in BOOLEAN,
        address \in AddressStrings}
    \cup {[kind |-> "depositForBurn",
           input |-> [amount |-> amount, destinationDomain |-> destinationDomain,
                      address |-> [encoding |-> "hex", length |-> 20,
                                   prefixed |-> prefixed]],
           output |-> NoValue] :
             amount \in BurnAmounts, destinationDomain \in DestinationDomains,
             prefixed \in BOOLEAN}

InitEncoder ==
    /\ transactions = <<>>
    /\ calls = [i \in TxIds |-> IdleCall]
    /\ completion = IdleCompletion
    /\ burnTx = [i \in TxIds |-> "none"]
    /\ attested = {}
    /\ minted = {}
    /\ webhooks = 0
    /\ attObserved = {}
    /\ fetched = [i \in TxIds |-> -1]
    /\ attCalls = [c \in Callers |-> IdleAttCall]
    /\ parser = NoParserCall
    /\ hook = NoHook
    /\ token = NoToken
    /\ encoder \in EncoderInputs
    /\ payments = NoPayments
    /\ ret = NoResponse

PrepareMintRecipient ==
    /\ encoder.kind = "mintRecipient" /\ encoder.output = NoValue
    /\ \E decoded \in hexDecodedLengths(encoder.input.address) :
          encoder' = [encoder EXCEPT !.output =
              IF encoder.input.executor = "evm"
              THEN EvmPrepareMintRecipient(encoder.input.address,
                                           encoder.input.toSolana)
              ELSE SolPrepareMintRecipient32(encoder.input.address,
                                             encoder.input.toSolana, decoded)]
    /\ UNCHANGED <<backendVars, parser, hook, token, payments>>

\* the account-chain executeTransfer to an EVM destination, as far as the
\* instruction data: prepareMintRecipient, then buildDepositForBurnInstruction
BuildDepositForBurnInstruction ==
    /\ encoder.kind = "depositForBurn" /\ encoder.output = NoValue
    /\ LET mintRecipient ==
               SolPrepareMintRecipient32(encoder.input.address, FALSE,
                                         encoder.input.address.length)
       IN
       encoder' = [encoder EXCEPT !.output =
           Returned(buildDepositForBurnInstruction(depositForBurnDiscriminator,
                        encoder.input.amount, encoder.input.destinationDomain,
                        mintRecipient.bytes))]
    /\ UNCHANGED <<backendVars, parser, hook, token, payments>>

NextEncoder ==
    \/ PrepareMintRecipient
    \/ BuildDepositForBurnInstruction

SpecEncoder == InitEncoder /\ [][NextEncoder]_vars

\* ------------------------------------------------------- payment sessions
\* PaymentService (createPaymentSession, getPaymentSession,
\* updatePaymentSession) and WebhookService.processPaymentWebhook over the
\* Payment collection.  payments.sessions is the collection, a document's
\* paymentId being its index; payments.now is the server clock in minutes;
\* payments.call is the last call made, with what it threw or returned.
\* A field a request leaves out, and a falsy one, are "" or 0; a status it
\* leaves out is "undefined".
MaxSessions == 1
ClockStep == 15
MaxClock == 45
SessionLifetime == 30

\* the members of the PaymentStatus enumeration the service uses
PaymentStatus == {"CREATED", "PENDING", "CONFIRMED", "BRIDGING", "COMPLETED",
                  "FAILED", "EXPIRED", "CANCELLED"}

\* IPayment['status']
IPaymentStatus == {"created", "pending", "confirmed", "completed", "failed",
                   "refunded", "expired", "cancelled", "bridging"}

supportedChains == {1, 137, 8453, 42161, 10, 43114, 11155111}

isValidChainId(chainId) == chainId \in supportedChains

\* PaymentService.validateCreatePaymentRequest: the error it throws, or "none"
validateCreatePaymentRequest(request) ==
    IF request.merchantId = "" \/ request.merchantWalletAddress = ""
       \/ request.amount = ""
    THEN "Missing required fields: merchantId, merchantWalletAddress, amount"
    ELSE IF isNaN(request.amount) \/ parseFloat(request.amount) <= 0
    THEN "Amount must be a positive number"
    ELSE IF ~isValidChainId(request.preferredChain)
    THEN "Invalid preferred chain ID"
    ELSE "none"

\* a table that allows every pair
statusMapAllowAll(currentStatus) == PaymentStatus

\* the statusMap of isValidStatusTransition
statusMap(currentStatus) ==
    CASE currentStatus = "created" -> {"PENDING", "EXPIRED", "CANCELLED"}
      [] currentStatus = "pending" -> {"CONFIRMED", "FAILED", "CANCELLED"}
      [] currentStatus = "confirmed" -> {"BRIDGING", "COMPLETED", "FAILED"}
      [] currentStatus = "bridging" -> {"COMPLETED", "FAILED"}
      [] currentStatus = "completed" -> {}
      [] currentStatus = "failed" -> {}
      [] currentStatus = "expired" -> {}
      [] currentStatus = "cancelled" -> {}
      [] currentStatus = "refunded" -> {}

\* PaymentService.isValidStatusTransition
isValidStatusTransition(currentStatus, newStatus) ==
    /\ currentStatus \in IPaymentStatus
    /\ newStatus \in statusMap(currentStatus)

\* PaymentService.mapPaymentStatusToSessionStatus
mapPaymentStatusToSessionStatus(status) ==
    CASE status = "created" -> "CREATED"
      [] status = "pending" -> "PENDING"
      [] status = "confirmed" -> "CONFIRMED"
      [] status = "bridging" -> "BRIDGING"
      [] status = "completed" -> "COMPLETED"
      [] status = "failed" -> "FAILED"
      [] status = "expired" -> "EXPIRED"
      [] status = "cancelled" -> "CANCELLED"
      [] status = "refunded" -> "FAILED"
      [] OTHER -> "CREATED"

\* PaymentService.mapSessionStatusToPaymentStatus
mapSessionStatusToPaymentStatus(status) ==
    CASE status = "CREATED" -> "created"
      [] status = "PENDING" -> "pending"
      [] status = "CONFIRMED" -> "confirmed"
      [] status = "BRIDGING" -> "bridging"
      [] status = "COMPLETED" -> "completed"
      [] status = "FAILED" -> "failed"
      [] status = "EXPIRED" -> "expired"
      [] status = "CANCELLED" -> "cancelled"
      [] OTHER -> "created"

\* WebhookService.mapCirclePaymentStatus
mapCirclePaymentStatus(circleStatus) ==
    CASE circleStatus = "pending" -> "pending"
      [] circleStatus = "confirmed" -> "confirmed"
      [] circleStatus = "paid" -> "completed"
      [] circleStatus = "failed" -> "failed"
      [] circleStatus = "cancelled" -> "cancelled"
      [] OTHER -> "pending"

\* the requests and notifications the calls are made with
CreateRequests == [merchantId : {"merchant"}, merchantWalletAddress : {"0xM"},
                   amount : {"", "abc", "0", "1"}, preferredChain : {1, 2},
                   metadata : {"order"}]

UpdateRequests == [status : PaymentStatus \cup {"undefined"},
                   sourceChain : {0}, customerAddress : {""},
                   transactionHash : {""}, metadata : {""}]
                  \cup
                  [status : PaymentStatus \cup {"undefined"},
                   sourceChain : {137}, customerAddress : {"0xC"},
                   transactionHash : {"0xT"}, metadata : {"paid"}]

PaymentWebhookTypes == {"payments.created", "payments.updated",
                        "payments.completed", "payments.failed"}

CirclePaymentStatuses == {"pending", "confirmed", "paid", "failed",
                          "cancelled", "action_required"}

PaymentIds == 1..MaxSessions

PaymentCall(kind, id, error, returned) ==
    [NoPaymentCall EXCEPT !.kind = kind, !.id = id, !.error = error,
                          !.returned = returned]

\* the clock moves on
Tick ==
    /\ payments.now + ClockStep <= MaxClock
    /\ payments' = [payments EXCEPT !.now = @ + ClockStep]
    /\ UNCHANGED <<backendVars, parser, hook, token, encoder>>

\* PaymentService.createPaymentSession: sessionId is a fresh uuid
CreatePaymentSession(request) ==
    /\ Len(payments.sessions) < MaxSessions
    /\ LET sessionId == Len(payments.sessions) + 1
           error == validateCreatePaymentRequest(request)
           payment == [status |-> "created",
                       sourceChain |-> request.preferredChain,
                       destinationChain |-> request.preferredChain,
                       customerAddress |-> "",
                       transactionId |-> "",
                       metadata |-> [request |-> request.metadata,
                                     lastWebhookUpdate |-> -1,
                                     lastWebhookType |-> "none",
                                     circleStatus |-> "none"],
                       expiresAt |-> payments.now + SessionLifetime]
       IN
       IF error # "none"
       THEN payments' = [payments EXCEPT
                !.call = PaymentCall("createPaymentSession", 0, error, "none")]
       ELSE payments' = [payments EXCEPT
                !.sessions = Append(@, payment),
                !.call = PaymentCall("createPaymentSession", sessionId, "none",
                                     "CREATED")]
    /\ UNCHANGED <<backendVars, parser, hook, token, encoder>>

\* the document getPaymentSession leaves in the collection: a session that
\* is read in 'created' after its expiresAt is saved as 'expired'
expireOnRead(payment, now) ==
    IF now > payment.expiresAt /\ payment.status = "created"
    THEN [payment EXCEPT !.status = "expired"]
    ELSE payment

\* PaymentService.getPaymentSession
GetPaymentSession(sessionId) ==
    /\ IF sessionId \notin DOMAIN payments.sessions
       THEN payments' = [payments EXCEPT
                !.call = PaymentCall("getPaymentSession", sessionId, "none",
                                     "null")]
       ELSE LET payment == expireOnRead(payments.sessions[sessionId],
                                        payments.now)
            IN payments' = [payments EXCEPT
                   !.sessions[sessionId] = payment,
                   !.call = PaymentCall("getPaymentSession", sessionId, "none",
                       mapPaymentStatusToSessionStatus(payment.status))]
    /\ UNCHANGED <<backendVars, parser, hook, token, encoder>>

\* the fields updatePaymentSession writes before it saves
applyUpdates(payment, updates) ==
    [payment EXCEPT
        !.sourceChain = IF updates.sourceChain # 0
                        THEN updates.sourceChain ELSE @,
        !.customerAddress = IF updates.customerAddress # ""
                            THEN updates.customerAddress ELSE @,
        !.status = IF updates.status # "undefined"
                   THEN mapSessionStatusToPaymentStatus(updates.status) ELSE @,
        !.transactionId = IF updates.transactionHash # ""
                          THEN updates.transactionHash ELSE @,
        !.metadata = IF updates.metadata # ""
                     THEN [@ EXCEPT !.request = updates.metadata] ELSE @]

\* PaymentService.updatePaymentSession: the transition check, the fields,
\* the save, and the getPaymentSession call that builds what it returns
UpdatePaymentSession(sessionId, updates) ==
    /\ LET call == [PaymentCall("updatePaymentSession", sessionId, "none",
                                "null") EXCEPT !.updates = updates]
       IN
       IF sessionId \notin DOMAIN payments.sessions
       THEN payments' = [payments EXCEPT !.call = call]
       ELSE IF updates.status # "undefined"
               /\ ~isValidStatusTransition(payments.sessions[sessionId].status,
                                           updates.status)
       THEN payments' = [payments EXCEPT
                !.call = [call EXCEPT !.error = "Invalid status transition",
                                      !.returned = "none"]]
       ELSE LET payment ==
                    expireOnRead(applyUpdates(payments.sessions[sessionId],
                                              updates), payments.now)
            IN payments' = [payments EXCEPT
                   !.sessions[sessionId] = payment,
                   !.call = [call EXCEPT !.returned =
                       mapPaymentStatusToSessionStatus(payment.status)]]
    /\ UNCHANGED <<backendVars, parser, hook, token, encoder>>

\* the status processPaymentWebhook writes for a notification
paymentWebhookStatus(notificationType, circleStatus) ==
    CASE notificationType = "payments.created" -> "created"
      [] notificationType = "payments.updated" ->
             mapCirclePaymentStatus(circleStatus)
      [] notificationType = "payments.completed" -> "completed"
      [] notificationType = "payments.failed" -> "failed"

\* WebhookService.processPaymentWebhook, reached from
\* processWebhookNotification for the four payments.* notification types
ProcessPaymentWebhook(id, notificationType, circleStatus) ==
    /\ LET call == [PaymentCall("processPaymentWebhook", id, "none",
                                "success") EXCEPT
                       !.notification = [notificationType |-> notificationType,
                                         status |-> circleStatus]]
       IN
       IF id \notin DOMAIN payments.sessions
       THEN payments' = [payments EXCEPT !.call = call]
       ELSE payments' = [payments EXCEPT
                !.sessions[id].status =
                    paymentWebhookStatus(notificationType, circleStatus),
                !.sessions[id].metadata =
                    [@ EXCEPT !.lastWebhookUpdate = payments.now,
                              !.lastWebhookType = notificationType,
                              !.circleStatus = circleStatus],
                !.call = call]
    /\ UNCHANGED <<backendVars, parser, hook, token, encoder>>

InitPayment ==
    /\ transactions = <<>>
    /\ calls = [i \in TxIds |-> IdleCall]
    /\ completion = IdleCompletion
    /\ burnTx = [i \in TxIds |-> "none"]
    /\ attested = {}
    /\ minted = {}
    /\ webhooks = 0
    /\ attObserved = {}
    /\ fetched = [i \in TxIds |-> -1]
    /\ attCalls = [c \in Callers |-> IdleAttCall]
    /\ parser = NoParserCall
    /\ hook = NoHook
    /\ token = NoToken
    /\ encoder = NoEncoding
    /\ payments = NoPayments
    /\ ret = NoResponse

NextPayment ==
    \/ Tick
    \/ \E request \in CreateRequests : CreatePaymentSession(request)
    \/ \E sessionId \in PaymentIds : GetPaymentSession(sessionId)
    \/ \E sessionId \in PaymentIds, updates \in UpdateRequests :
          UpdatePaymentSession(sessionId, updates)
    \/ \E id \in PaymentIds, notificationType \in PaymentWebhookTypes,
          circleStatus \in CirclePaymentStatuses :
          ProcessPaymentWebhook(id, notificationType, circleStatus)

SpecPayment == InitPayment /\ [][NextPayment]_vars

\* ------------------------------------------------------------------ claims

\* C1: once a record's status is 'completed' or 'failed', no step of an
\* initiateTransfer, getAttestation, completeTransfer or getTransferStatus
\* call changes it (every step but a webhook's leaves webhooks as it is).
TerminalStatusIsKept ==
    [][webhooks' = webhooks =>
          \A i \in DOMAIN transactions :
             transactions[i].status \in {"completed", "failed"}
                => transactions'[i].status = transactions[i].status]_vars

\* C2: every change of a record's status, by any writer, moves it forward in
\* the order pending, confirmed, completed, or moves it to 'failed' from a
\* status that is not terminal.
StatusMovesForward ==
    [][\A i \in DOMAIN transactions :
          LET rank == [st \in TransactionStatus |->
                          CASE st = "pending" -> 1
                            [] st = "confirmed" -> 2
                            [] st = "completed" -> 3
                            [] st = "failed" -> 0]
              old == transactions[i].status
              new == transactions'[i].status
          IN new # old =>
                \/ new # "failed" /\ old # "failed" /\ rank[old] < rank[new]
                \/ new = "failed" /\ old \in {"pending", "confirmed"}]_vars

\* C3: completeTransfer submits a mint for a transfer only after that
\* transfer's burn went through and its attestation was observed complete by
\* a handler.
MintSubmittedAfterBurnAndAttestation ==
    [][completion.pc = "submit" /\ completion' # completion =>
          LET i == TransferOf(completion.message) IN
          /\ i \in TxIds
          /\ burnTx[i] = "mined"
          /\ i \in attObserved]_vars

\* C4: a record has burnTxHash only if the burn submitted for it was mined
\* and the initiateTransfer call ended without an error, and has mintTxHash
\* only if a mint that a completion submitted for its message went through.
HashesOnlyAfterSuccess ==
    \A i \in DOMAIN transactions :
       /\ transactions[i].burnTxHash # NoValue =>
             /\ transactions[i].burnTxHash = BurnHash(i)
             /\ burnTx[i] = "mined"
             /\ calls[i].burnSubmits = 1
             /\ calls[i].pc = "done" /\ calls[i].error = "none"
       /\ transactions[i].mintTxHash # NoValue =>
             \E j \in minted : transactions[i].mintTxHash = MintHash(j)

\* C4 happens: a record carries both hashes
BothHashesSet ==
    \E i \in DOMAIN transactions :
       /\ transactions[i].burnTxHash # NoValue
       /\ transactions[i].mintTxHash # NoValue

\* C5: when completeTransfer answers with a mint hash for the message of a
\* transfer that initiateTransfer created, that transfer's record has this
\* mintTxHash and status 'completed'.
CompletionIsPersisted ==
    (ret.op = "completeTransfer" /\ ret.outcome = "ok"
        /\ ret.id \in DOMAIN transactions)
    => /\ transactions[ret.id].mintTxHash = ret.hash
       /\ transactions[ret.id].status = "completed"

\* C6: when the executor call inside completeTransfer fails, the record of
\* the message's transfer has status 'failed' and an error in its metadata by
\* the time the error reaches the caller.
CompletionFailureIsRecorded ==
    (ret.op = "completeTransfer" /\ ret.outcome = "error"
        /\ ret.id \in DOMAIN transactions)
    => /\ transactions[ret.id].status = "failed"
       /\ transactions[ret.id].metadata.error # "none"

\* C7: when the executor call inside initiateTransfer fails, the record the
\* call created has status 'failed', the error in its metadata and no
\* burnTxHash, and the caller gets the same error.
InitiateFailureIsRecorded ==
    (ret.op = "initiateTransfer" /\ ret.outcome = "error")
    => /\ ret.id \in DOMAIN transactions
       /\ transactions[ret.id].status = "failed"
       /\ transactions[ret.id].metadata.error = ret.error
       /\ ret.error # "none"
       /\ transactions[ret.id].burnTxHash = NoValue

\* C7 happens: initiateTransfer failed after its burn had been submitted
InitiateFailedAfterBurnSubmitted ==
    /\ ret.op = "initiateTransfer" /\ ret.outcome = "error"
    /\ calls[ret.id].burnSubmits = 1

\* C8: one initiateTransfer call submits at most one burn and one
\* completeTransfer call at most one mint, whether the call is running, has
\* succeeded or has failed.
AtMostOneSubmission ==
    /\ \A i \in TxIds : calls[i].burnSubmits <= 1
    /\ completion.mintSubmits <= 1
    /\ ret.op = "completeTransfer" /\ ret.outcome \in {"ok", "error"}
          => ret.data[2] <= 1

\* C8 happens: a burn was submitted and the initiateTransfer call failed, and
\* the completeTransfer call that just ended failed after it submitted a mint
SubmissionsFailed ==
    /\ \E i \in TxIds : /\ calls[i].pc = "done"
                        /\ calls[i].error = "TransferExecutionFailed"
                        /\ calls[i].burnSubmits = 1
    /\ ret.op = "completeTransfer" /\ ret.outcome = "error"
    /\ ret.data[2] = 1

\* C9: a call that failed on a pre-submission validation (insufficient
\* balance, missing token account, invalid destination address) has submitted
\* nothing, neither an approval nor a burn.
ValidationFailsBeforeAnySubmission ==
    \A i \in TxIds :
       calls[i].error \in {"InsufficientBalance", "TokenAccountMissing",
                           "InvalidDestinationAddress"}
       => calls[i].approveSubmits = 0 /\ calls[i].burnSubmits = 0

\* C10: an EVM executeTransfer that read a balance below the amount has failed
\* with InsufficientBalance and submitted neither an approval nor a burn.
EvmInsufficientBalanceStopsTransfer ==
    \A i \in DOMAIN transactions :
       (/\ ~isSolanaChain(transactions[i].sourceChain)
        /\ calls[i].balance # -1
        /\ calls[i].balance < amountOf(i))
       => /\ calls[i].pc = "done"
          /\ calls[i].error = "InsufficientBalance"
          /\ calls[i].approveSubmits = 0
          /\ calls[i].burnSubmits = 0

\* C10 happens: an EVM executor read a balance below the amount
EvmBalanceBelowAmount ==
    \E i \in DOMAIN transactions :
       /\ ~isSolanaChain(transactions[i].sourceChain)
       /\ calls[i].balance # -1
       /\ calls[i].balance < amountOf(i)

\* C11: a request with equal chains, an unsupported chain, an amount that is
\* not positive or a missing field is rejected: the rejection leaves no record
\* and starts no executor, and every record there is was made from a request
\* with none of these faults.
InvalidRequestCreatesNothing ==
    /\ (ret.op = "initiateTransfer" /\ ret.outcome = "rejected")
          => /\ ret.id \notin DOMAIN transactions
             /\ calls[ret.id] = IdleCall
             /\ burnTx[ret.id] = "none"
    /\ \A i \in TxIds :
          (calls[i] # IdleCall \/ burnTx[i] # "none") => i \in DOMAIN transactions
    /\ \A i \in DOMAIN transactions :
          LET t == transactions[i] IN
          /\ t.sourceChain \in {"ETH_SEPOLIA", "BASE_SEPOLIA", "SOLANA_DEVNET"}
          /\ t.destinationChain \in {"ETH_SEPOLIA", "BASE_SEPOLIA", "SOLANA_DEVNET"}
          /\ t.sourceChain # t.destinationChain
          /\ \E n \in 1..MaxAmount : t.amount = ToString(n)
          /\ t.sourceAddress # "" /\ t.destinationAddress # ""

\* C11 happens: a request naming the same chain twice was rejected
EqualChainsRejected ==
    /\ ret.op = "initiateTransfer" /\ ret.outcome = "rejected"
    /\ ret.error = "Source and destination chains must be different"

CachedAttestationIsReturned ==
    [][\A t \in DOMAIN transactions :
          (/\ ret'.op = "getAttestation" /\ ret'.outcome # "rejected"
           /\ ret'.id = t
           /\ transactions[t].attestationHash # NoValue
           /\ transactions[t].messageBytes # NoValue)
          => /\ ret'.outcome = "complete"
             /\ ret'.data[2] = transactions[t].messageBytes
             /\ ret'.data[3] = transactions[t].attestationHash
             /\ ret'.data[4] = transactions[t].messageHash
             /\ ret'.data[5] = 0]_vars

\* C15 happens: a call was answered 'complete' without a call to the service
AnsweredWithoutExternalCall ==
    /\ ret.op = "getAttestation" /\ ret.outcome = "complete"
    /\ ret.data[5] = 0
    /\ ret.data[2] = transactions[ret.id].messageBytes

\* C16: a getAttestation call whose query of the attestation service timed
\* out returns 'pending' and raises no error.
AttestationTimeoutIsPending ==
    (ret.op = "getAttestation" /\ ret.outcome # "rejected"
        /\ ret.data[7] = "timeout")
    => ret.outcome = "pending" /\ ret.error = "none"

\* C17: a getAttestation call that the attestation service answered with
\* not-found (status 404, or no message for the reference) returns 'pending',
\* raises no error and leaves every record as it was.
NotFoundIsPending ==
    [][(/\ ret'.op = "getAttestation" /\ ret'.outcome # "rejected"
        /\ ret'.data[7] \in {"notFound", "noMessage"})
       => /\ ret'.outcome = "pending" /\ ret'.error = "none"
          /\ ret'.data[2] = NoValue /\ ret'.data[3] = NoValue
          /\ transactions' = transactions]_vars

\* C17 happens: a call for a mined burn was answered with status 404
NotFoundForMinedBurn ==
    /\ ret.op = "getAttestation" /\ ret.outcome = "pending"
    /\ ret.data[7] = "notFound"
    /\ \E i \in TxIds : ret.hash = BurnHash(i) /\ burnTx[i] = "mined"

\* what is true of the reference a getTransferStatus response is about: its
\* burn is confirmed on the source chain, its attestation is complete
BurnConfirmedFact ==
    \E i \in DOMAIN transactions :
       /\ ret.hash = BurnHash(i) /\ transactions[i].sourceChain = ret.data[4]
       /\ burnTx[i] = "mined"

AttestationCompleteFact ==
    \E i \in DOMAIN transactions :
       /\ ret.hash = BurnHash(i) /\ transactions[i].sourceChain = ret.data[4]
       /\ i \in attested

ParserBytes ==
    IF parser.kind = "hex" THEN hexBufferLength(parser.length) ELSE parser.length

\* C19: on an input shorter than 116 bytes, parseMessage (decodeMessage) and
\* parseDepositForBurnMessage (decodeBurnBody) fail with MalformedMessage and
\* return no parsed value.
ShortInputIsMalformedMessage ==
    (parser.outcome # "none" /\ ParserBytes < MESSAGE_BODY_OFFSET)
       => (parser.outcome = "MalformedMessage" /\ parser.parsed = NoValue)

\* C20: once the OmniCheckoutHook contract is deployed, and after every
\* updateCharityConfig call by any account, charityPercentage is at most 1000
\* basis points and charityAddress is not the zero address; a deployment or
\* an update that reverts leaves the contract and its configuration as they
\* were.
CharityConfigIsBounded ==
    [][/\ hook'.deployed
             => /\ hook'.charityPercentage <= MaxCharityPercentage
                /\ hook'.charityAddress # ZeroAddress
       /\ hook'.error # "none"
             => /\ hook'.deployed = hook.deployed
                /\ hook'.owner = hook.owner
                /\ hook'.charityAddress = hook.charityAddress
                /\ hook'.charityPercentage = hook.charityPercentage]_vars

\* C20 happens: the owner's update with a percentage above the bound was
\* rejected
UpdateAboveBoundRejected ==
    /\ hook.deployed
    /\ hook.call = "updateCharityConfig" /\ hook.error = "InvalidPercentage"

\* C21: executeHook with amount > 0, called on a contract that holds the
\* amount, sends floor(amount * charityPercentage / 10000) to the charity
\* address and the rest to the recipient, the two together exactly amount;
\* with amount = 0 it reverts with InsufficientAmount; a call that reverts
\* moves no token.
ExecuteHookSplitsAmount ==
    [][hook'.call = "executeHook"
          => LET recipient == hook'.returned[1]
                 amount == hook'.returned[2]
                 charity == hook.charityAddress
                 share == (amount * hook.charityPercentage) \div BasisPoints
             IN
             /\ amount = 0 => hook'.error = "InsufficientAmount"
             /\ (amount > 0 /\ token[HookAddress] >= amount) => hook'.error = "none"
             /\ hook'.error # "none" => token' = token
             /\ hook'.error = "none"
                   => /\ amount > 0
                      /\ hook'.returned[3] + hook'.returned[4] = amount
                      /\ hook'.returned[4] = share
                      /\ token'[HookAddress] = token[HookAddress] - amount
                      /\ \A a \in Accounts :
                            token'[a] = token[a]
                               + (IF a = recipient THEN amount - share ELSE 0)
                               + (IF a = charity THEN share ELSE 0)]_vars

\* C21 happens: a call paid a non-zero, rounded-down share to the charity and
\* the rest to another account
HookPaidCharityAndRecipient ==
    /\ hook.call = "executeHook" /\ hook.error = "none"
    /\ hook.returned[4] > 0
    /\ hook.returned[4] * BasisPoints < hook.returned[2] * hook.charityPercentage
    /\ hook.returned[1] # hook.charityAddress
    /\ token[hook.returned[1]] >= hook.returned[3]
    /\ token[hook.charityAddress] >= hook.returned[4]

\* C22: in the EVM executeTransfer a burn is submitted only after the
\* allowance was read; when the allowance was below the amount, the approval
\* was submitted and mined before the burn is submitted; while the approval
\* is unconfirmed, and after it failed, no burn is submitted.
ApprovalConfirmedBeforeBurn ==
    [][\A i \in DOMAIN transactions :
          (~isSolanaChain(transactions[i].sourceChain)
              /\ calls'[i].burnSubmits > calls[i].burnSubmits)
             => /\ calls[i].allowance \in {"enough", "short"}
                /\ calls[i].allowance = "short"
                      => /\ calls[i].approval = "mined"
                         /\ calls[i].approveSubmits = 1
                /\ calls[i].allowance = "enough"
                      => /\ calls[i].approval = "none"
                         /\ calls[i].approveSubmits = 0]_vars

\* C22 happens: the allowance was short, the approval was mined, and the burn
\* was submitted
BurnSubmittedAfterApproval ==
    \E i \in DOMAIN transactions :
       /\ calls[i].allowance = "short" /\ calls[i].approval = "mined"
       /\ calls[i].burnSubmits = 1

MintRecipientIs32Bytes ==
    (encoder.kind = "mintRecipient" /\ encoder.output # NoValue)
       => LET address == encoder.input.address
              bytes == encoder.output.bytes
              valid == IF encoder.input.toSolana
                       THEN address.encoding = "base58" /\ address.length = 32
                       ELSE /\ address.encoding = "hex" /\ address.length = 20
                            /\ (address.prefixed \/ encoder.input.executor = "solana")
          IN
          /\ valid => encoder.output.thrown = "none"
          /\ encoder.output.thrown = "none" => Len(bytes) = 32
          /\ (valid /\ ~encoder.input.toSolana)
                => /\ \A k \in 1..12 : bytes[k] = 0
                   /\ \A k \in 1..20 : bytes[12 + k] = AddressByte(k)
          /\ (valid /\ encoder.input.toSolana)
                => \A k \in 1..32 : bytes[k] = AddressByte(k)

\* C24 happens: the EVM executor padded a 20-byte address
EvmAddressPadded ==
    /\ encoder.kind = "mintRecipient" /\ encoder.output # NoValue
    /\ encoder.input.executor = "evm" /\ ~encoder.input.toSolana
    /\ encoder.input.address.length = 20
    /\ encoder.output.thrown = "none"

\* the number a sequence of bytes is, lowest byte first
RECURSIVE littleEndianValue(_)
littleEndianValue(bytes) ==
    IF bytes = <<>> THEN 0 ELSE Head(bytes) + 256 * littleEndianValue(Tail(bytes))

\* C25: the account-chain burn instruction data is exactly 84 bytes: the 8
\* bytes of the discriminator, the amount (here below 2^32) in 8 bytes lowest
\* first, the destination domain in 4 bytes lowest first, the 32 bytes of the
\* mint recipient, and 32 zero bytes for the destination caller.
BurnInstructionLayout ==
    (encoder.kind = "depositForBurn" /\ encoder.output # NoValue)
       => LET data == encoder.output.bytes IN
          /\ Len(data) = 84
          /\ SubSeq(data, 1, 8) = depositForBurnDiscriminator
          /\ littleEndianValue(SubSeq(data, 9, 12)) = encoder.input.amount
          /\ SubSeq(data, 13, 16) = zeroBytes(4)
          /\ \A k \in 9..16 : data[k] \in 0..255
          /\ littleEndianValue(SubSeq(data, 17, 20)) = encoder.input.destinationDomain
          /\ \A k \in 17..20 : data[k] \in 0..255
          /\ SubSeq(data, 21, 52) = zeroBytes(12) \o addressBytes(20)
          /\ SubSeq(data, 53, 84) = zeroBytes(32)

\* C25 happens: an amount that takes more than one byte was encoded
BurnInstructionBuilt ==
    /\ encoder.kind = "depositForBurn" /\ encoder.output # NoValue
    /\ encoder.input.amount > 65535
    /\ encoder.input.destinationDomain > 0

\* C26: a completeTransfer call for a transfer whose record was completed
\* when the call came in submits no mint transaction and leaves the record's
\* mintTxHash and status as they were.
CompletedTransferIsNotMintedAgain ==
    [][completion.recordCompleted
          => /\ completion'.mintSubmits <= completion.mintSubmits
             /\ completion' # completion
                   => LET i == TransferOf(completion.message) IN
                      /\ transactions'[i].mintTxHash = transactions[i].mintTxHash
                      /\ transactions'[i].status = transactions[i].status]_vars

\* C27: initiateTransfer calls that carry the same sessionId, one after the
\* other or at the same time, leave one record and at most one burn
\* submission: the record first created is never replaced, and the later
\* call fails on the unique transactionId, with no executor step taken for
\* it and nothing written.
SameSessionIdOneRecordOneBurn ==
    [][/\ \A i \in DOMAIN transactions :
             /\ i \in DOMAIN transactions'
             /\ transactions'[i].sourceChain = transactions[i].sourceChain
             /\ transactions'[i].destinationChain = transactions[i].destinationChain
             /\ transactions'[i].amount = transactions[i].amount
             /\ transactions'[i].destinationAddress = transactions[i].destinationAddress
             /\ calls'[i].burnSubmits <= 1
             /\ calls[i].pc = "done" => calls'[i] = calls[i]
       /\ (ret'.op = "initiateTransfer" /\ ret'.outcome = "duplicate")
             => /\ ret'.id \in DOMAIN transactions
                /\ UNCHANGED <<transactions, calls, burnTx>>]_vars

\* C27 happens: a second call with the sessionId was refused while the first
\* call had its burn submitted and was waiting for it
DuplicateRefusedDuringFirstCall ==
    /\ ret.op = "initiateTransfer" /\ ret.outcome = "duplicate"
    /\ calls[ret.id].pc = "burnWait" /\ calls[ret.id].burnSubmits = 1

\* the statuses of a Payment from which the transition table allows nothing
FinalPaymentStatuses == {"completed", "failed", "expired", "cancelled",
                         "refunded"}

\* the transition table, as pairs (stored status, requested status)
TransitionPairs ==
    {<<"created", "PENDING">>, <<"created", "EXPIRED">>,
     <<"created", "CANCELLED">>, <<"pending", "CONFIRMED">>,
     <<"pending", "FAILED">>, <<"pending", "CANCELLED">>,
     <<"confirmed", "BRIDGING">>, <<"confirmed", "COMPLETED">>,
     <<"confirmed", "FAILED">>, <<"bridging", "COMPLETED">>,
     <<"bridging", "FAILED">>}

\* the step is a call of this kind for a session that exists
PaymentStep(kind) ==
    /\ payments' # payments
    /\ payments'.now = payments.now
    /\ payments'.call.kind = kind
    /\ payments'.call.id \in DOMAIN payments.sessions

\* C28: processing a payment webhook notification never changes the status
\* of a Payment whose stored status is completed, failed, expired, cancelled
\* or refunded.
WebhookKeepsFinalPaymentStatus ==
    [][PaymentStep("processPaymentWebhook")
          => \A id \in DOMAIN payments.sessions :
                payments.sessions[id].status \in FinalPaymentStatuses
                   => payments'.sessions[id].status = payments.sessions[id].status]_vars

\* C29: an updatePaymentSession request that carries a status persists it
\* when the pair (stored status, requested status) is in the transition
\* table, and otherwise raises an error and persists no change to any field
\* of the payment; a request that carries no status changes the stored
\* status in one case only, from created to expired after expiresAt.
UpdateFollowsTransitionTable ==
    [][PaymentStep("updatePaymentSession")
          => LET id == payments'.call.id
                 requested == payments'.call.updates.status
                 stored == payments.sessions[id]
                 saved == payments'.sessions[id]
             IN
             /\ \A other \in DOMAIN payments.sessions \ {id} :
                   payments'.sessions[other] = payments.sessions[other]
             /\ requested # "undefined"
                   => IF <<stored.status, requested>> \in TransitionPairs
                      THEN /\ payments'.call.error = "none"
                           /\ mapPaymentStatusToSessionStatus(saved.status)
                                  = requested
                      ELSE /\ payments'.call.error = "Invalid status transition"
                           /\ saved = stored
             /\ requested = "undefined"
                   => \/ saved.status = stored.status
                      \/ /\ stored.status = "created"
                         /\ payments.now > stored.expiresAt
                         /\ saved.status = "expired"]_vars

\* C29 happens: a request from completed to pending that also carried a
\* customer address was refused, and the address was not stored
UpdateRefusedNothingStored ==
    /\ payments.call.kind = "updatePaymentSession"
    /\ payments.call.error = "Invalid status transition"
    /\ payments.call.updates.status = "PENDING"
    /\ payments.call.updates.customerAddress = "0xC"
    /\ payments.call.id \in DOMAIN payments.sessions
    /\ payments.sessions[payments.call.id].status = "completed"
    /\ payments.sessions[payments.call.id].customerAddress = ""

\* C29 as stated: updatePaymentSession persists a status change only when
\* the pair (stored status, requested status) is in the transition table,
\* and for every other requested status raises an error and persists nothing
UpdateChangesStatusOnlyForTablePairs ==
    [][PaymentStep("updatePaymentSession")
          => LET id == payments'.call.id
                 requested == payments'.call.updates.status
                 stored == payments.sessions[id]
                 saved == payments'.sessions[id]
             IN
             /\ saved.status # stored.status
                   => <<stored.status, requested>> \in TransitionPairs
             /\ (requested # "undefined"
                 /\ <<stored.status, requested>> \notin TransitionPairs)
                   => /\ payments'.call.error = "Invalid status transition"
                      /\ saved = stored]_vars

\* C30: a payment session in status created whose expiresAt has passed can
\* no longer be moved to pending: every updatePaymentSession request for it
\* to pending made after expiresAt is rejected, whether or not
\* getPaymentSession was called on it in between.
ExpiredSessionIsNotMovedToPending ==
    [][PaymentStep("updatePaymentSession")
          => LET id == payments'.call.id IN
             (/\ payments'.call.updates.status = "PENDING"
              /\ payments.now > payments.sessions[id].expiresAt
              /\ payments.sessions[id].status = "created")
                => /\ payments'.call.error = "Invalid status transition"
                   /\ payments'.sessions[id].status # "pending"]_vars

====
